---- MODULE Spec2Model ----
(***************************************************************************)
(* A model of fpkgi-server: the ranged HTTP file server (src/server.rs),   *)
(* the catalog builder (src/json_builder.rs), the rebuild writer and the   *)
(* host orchestration (src/main.rs) and the filesystem watcher loop        *)
(* (src/watcher.rs).                                                       *)
(*                                                                         *)
(* Strings that the code inspects character by character are sequences of  *)
(* one-character strings.  A file's content is the sequence of its byte    *)
(* offsets, so that a body can be compared with the file region it should  *)
(* hold.                                                                   *)
(***************************************************************************)
EXTENDS Integers, Sequences, FiniteSets, TLC

VARIABLES
  \* ---- the ranged file server (serve_file) ----
  headers,        \* the request's Range header: [present, value]
  file_size,      \* metadata.len() of the served file
  response,       \* status line and headers of the answer
  body,           \* the bytes the body stream has yielded so far
  reader_stream,  \* the body stream: [pos, left], left = items take() still lets through
  serve_pc,       \* "idle", "request", "streaming", "done" or "panicked"
  \* ---- the request handler (handle_request) ----
  path,           \* req.uri().path(), still percent-encoded
  handler_pc,     \* "idle", "request" or "done"
  \* ---- the catalog builder (handle_packages) ----
  pkg_root,       \* the files under the packages root, in WalkDir's order
  external_dir,   \* the files of the external directory, in WalkDir's order
  args,           \* GenerateArgs: [icons]
  processed_data, \* what handle_packages returned: [status, data]
  builder_pc,     \* "idle", "call" or "done"
  \* ---- host mode (main, run_generate, Watcher, run_server) ----
  main_pc,        \* where main is: "idle", "start", "generate", "bind", "accept", "error"
  watcher_pc,     \* the watcher task: "unspawned", "new", "recv", "generate", "failed"
  channel,        \* the items sent on the mpsc channel and not yet received
  watching,       \* whether the packages root is registered with the notifier
  event,          \* event_result, the item the watcher loop received last
  out_dir,        \* the output directory: category -> the state of <category>.json
  run,            \* the run_generate execution of main and of the watcher task
  running,        \* how many run_generate calls are executing
  last_result,    \* what the run_generate call that returned last computed
  conn,           \* a connection's task serving a JSON file
  exit_code,      \* "running", or the status the process ended with
  \* ---- merge_json_values, called on its own ----
  merge_base,     \* the value merged into
  merge_external, \* the value merged in
  merge_once,     \* the result of one merge
  merge_twice,    \* the result of merging the same value in again
  merge_pc,       \* "idle", "call", "once" or "done"
  \* ---- the watcher loops, run on their own ----
  loop_mode,      \* which loop runs: "run" or "run_with_generate"
  loop_pc,        \* "idle", "recv", "generate", "returned" or "panicked"
  loop_channel,   \* the items sent and not yet received
  loop_sender,    \* whether the channel's sender still exists
  loop_item,      \* the kind of the item received last
  loop_log,       \* the line logged last
  loop_result,    \* what the loop returned: "none" or "Ok"
  loop_sent,      \* how many Create, Modify and Remove events were sent
  loop_started,   \* how many run_generate calls the loop has made
  \* ---- SFOProcessor::process, called on its own ----
  sfo_buffer,     \* the buffer passed in
  sfo_result,     \* what process returned: [status, map]
  sfo_pc,         \* "idle", "call" or "done"
  \* ---- PS4Package::new and get_file, called on their own ----
  pkgf_file,      \* the PKG file on disk
  pkgf_package,   \* what new returned: [status, file_entries]
  pkgf_identifier,\* the identifier get_file was called with
  pkgf_entry,     \* the id of the entry locate_file returned
  pkgf_got,       \* what get_file did: [status, from, to], the bytes read
  pkgf_pc,        \* "idle", "new", "parsed", "failed" or "got"
  \* ---- host mode on the task runtime ----
  rt_workers,     \* the number of worker threads
  rt_queue,       \* the run queue: tasks that are ready and on no thread
  rt_events,      \* the number of items on the watcher's channel
  rt_watcher,     \* the watcher task: "unspawned", "queued", "recv" or "generate"
  rt_conn,        \* connection -> "none", "queued", "running" or "answered"
  rt_main         \* main: "idle", "spawn" or "accept"

rangeVars == <<headers, file_size, response, body, reader_stream, serve_pc>>

requestVars == <<path, handler_pc>>

builderVars == <<pkg_root, external_dir, args, processed_data, builder_pc>>

hostVars == <<main_pc, watcher_pc, channel, watching, event, out_dir, run,
              running, last_result, conn, exit_code>>

mergeVars == <<merge_base, merge_external, merge_once, merge_twice, merge_pc>>

loopVars == <<loop_mode, loop_pc, loop_channel, loop_sender, loop_item, loop_log,
              loop_result, loop_sent, loop_started>>

sfoVars == <<sfo_buffer, sfo_result, sfo_pc>>

pkgfVars == <<pkgf_file, pkgf_package, pkgf_identifier, pkgf_entry, pkgf_got, pkgf_pc>>

\* the parts that are run on their own
unitVars == <<mergeVars, loopVars, sfoVars, pkgfVars>>

rtVars == <<rt_workers, rt_queue, rt_events, rt_watcher, rt_conn, rt_main>>

(***************************************************************************)
(* Bounds of the model.                                                    *)
(***************************************************************************)
\* largest file size served in the range model
MaxFileSize == 3
\* longest arbitrary text after "bytes=" in an enumerated Range header
MaxTail == 3
\* most bytes the file reader hands over in one chunk
MaxChunk == 2

(***************************************************************************)
(* Text helpers.                                                           *)
(***************************************************************************)
Digits == <<"0", "1", "2", "3", "4", "5", "6", "7", "8", "9">>

IsDigit(c) == \E i \in 1..Len(Digits) : Digits[i] = c

DigitVal(c) == (CHOOSE i \in 1..Len(Digits) : Digits[i] = c) - 1

\* stand-in for u64::MAX: TLC's integers are 32 bits wide; every file size
\* and every number a modelled header can spell is far below it
U64_MAX == 2147483645 + 1

StartsWith(s, p) == Len(s) >= Len(p) /\ SubSeq(s, 1, Len(p)) = p

\* index of the first occurrence of c in s, 0 when there is none
IndexOf(s, c) ==
  IF \E i \in 1..Len(s) : s[i] = c
  THEN CHOOSE i \in 1..Len(s) : s[i] = c /\ \A j \in 1..(i - 1) : s[j] # c
  ELSE 0

\* str::trim over the characters of the model: blanks off both ends
Trim(s) ==
  IF \A i \in 1..Len(s) : s[i] = " " THEN <<>>
  ELSE LET lo == CHOOSE i \in 1..Len(s) : s[i] # " " /\ \A j \in 1..(i - 1) : s[j] = " "
           hi == CHOOSE i \in 1..Len(s) : s[i] # " " /\ \A j \in (i + 1)..Len(s) : s[j] = " "
       IN SubSeq(s, lo, hi)

RECURSIVE DecimalValue(_)
DecimalValue(s) ==
  IF s = <<>> THEN 0
  ELSE DecimalValue(SubSeq(s, 1, Len(s) - 1)) * 10 + DigitVal(s[Len(s)])

\* str::parse::<u64>: an optional '+', then one or more digits and nothing
\* else; an empty string, any other character or an overflow is an error
\* (more than nine digits stands for the overflow of the stand-in width)
ParseU64(s) ==
  LET d == IF s # <<>> /\ s[1] = "+" THEN SubSeq(s, 2, Len(s)) ELSE s
  IN IF d = <<>> \/ \E i \in 1..Len(d) : ~IsDigit(d[i])
     THEN [ok |-> FALSE, val |-> 0]
     ELSE IF Len(d) > 9 THEN [ok |-> FALSE, val |-> 0]
     ELSE [ok |-> TRUE, val |-> DecimalValue(d)]

\* u64::to_string
RECURSIVE ToDecimal(_)
ToDecimal(n) ==
  IF n < 10 THEN <<Digits[n + 1]>>
  ELSE Append(ToDecimal(n \div 10), Digits[(n % 10) + 1])

(***************************************************************************)
(* The ranged file server: parse_range and serve_file.                     *)
(***************************************************************************)
BytesPrefix == <<"b", "y", "t", "e", "s", "=">>

RangeNone == [kind |-> "none", start |-> 0, end |-> 0]

RangeSome(a, b) == [kind |-> "some", start |-> a, end |-> b]

\* the u64 subtraction `file_size - 1` overflowed in a build with overflow
\* checks: the request's task panics and no response is produced
RangePanic == [kind |-> "panic", start |-> 0, end |-> 0]

\* the final bounds check of parse_range
MutCheckBoundsNoUpper(start, end, size) ==
  IF start > end THEN RangeNone ELSE RangeSome(start, end)

CheckBounds(start, end, size) ==
  IF start > end \/ end >= size THEN RangeNone ELSE RangeSome(start, end)

\* `file_size - 1` on u64: with file_size = 0 the subtraction overflows,
\* which panics (overflow checks on) or wraps to u64::MAX (checks off)
EndOfFileBounds(size) ==
  IF size = 0 THEN {[panic |-> TRUE, end |-> 0], [panic |-> FALSE, end |-> U64_MAX]}
  ELSE {[panic |-> FALSE, end |-> size - 1]}

\* parse_range: the set of outcomes the build can produce
parse_range(range, size) ==
  IF ~StartsWith(range, BytesPrefix) THEN {RangeNone}
  ELSE LET r == SubSeq(range, Len(BytesPrefix) + 1, Len(range))
           dash == IndexOf(r, "-")
       IN IF dash = 0 THEN {RangeNone}
          ELSE LET start == ParseU64(Trim(SubSeq(r, 1, dash - 1)))
                   upper == Trim(SubSeq(r, dash + 1, Len(r)))
               IN IF ~start.ok THEN {RangeNone}
                  ELSE IF upper = <<>>
                       THEN {IF e.panic THEN RangePanic
                                        ELSE CheckBounds(start.val, e.end, size)
                               : e \in EndOfFileBounds(size)}
                       ELSE LET end == ParseU64(upper)
                            IN IF ~end.ok THEN {RangeNone}
                               ELSE {CheckBounds(start.val, end.val, size)}

Min(a, b) == IF a < b THEN a ELSE b

\* the bytes of the served file from offset a to offset b
Region(a, b) == [i \in 1..(b - a + 1) |-> a + i - 1]

\* a response head: a header that is not set is empty; `links` is the list of
\* anchors of an HTML body
NoResponse == [status |-> 0, content_type |-> "", content_length |-> <<>>,
               content_range |-> <<>>, accept_ranges |-> FALSE, location |-> <<>>,
               links |-> <<>>]

\* take() is not applied to the 200 body: no limit on the number of items
Unlimited == 0 - 1

\* the Content-Range value, format!("bytes {}-{}/{}", start, end, file_size)
ContentRange(start, end, size) ==
  <<"b", "y", "t", "e", "s", " ">> \o ToDecimal(start) \o <<"-">> \o ToDecimal(end)
    \o <<"/">> \o ToDecimal(size)

\* serve_file after File::open and fs::metadata succeeded: the response head
\* and the body stream it hands to hyper
ServeFile ==
  /\ serve_pc = "request"
  /\ \E range \in (IF headers.present THEN parse_range(headers.value, file_size)
                                       ELSE {RangeNone}) :
       IF range.kind = "panic"
       THEN /\ serve_pc' = "panicked"
            /\ UNCHANGED <<response, reader_stream>>
       ELSE IF range.kind = "some"
       THEN LET content_length == range.end - range.start + 1
            IN /\ response' = [NoResponse EXCEPT
                               !.status = 206,
                               !.content_type = "application/octet-stream",
                               !.content_length = ToDecimal(content_length),
                               !.content_range = ContentRange(range.start, range.end, file_size),
                               !.accept_ranges = TRUE]
               \* file.seek(SeekFrom::Start(start)); ReaderStream::new(file).take(n)
               /\ reader_stream' = [pos |-> range.start, left |-> content_length]
               /\ serve_pc' = "streaming"
       ELSE /\ response' = [NoResponse EXCEPT
                            !.status = 200,
                            !.content_type = "application/octet-stream",
                            !.content_length = ToDecimal(file_size),
                            !.accept_ranges = TRUE]
            /\ reader_stream' = [pos |-> 0, left |-> Unlimited]
            /\ serve_pc' = "streaming"
  /\ UNCHANGED <<headers, file_size, body, requestVars, builderVars, hostVars, unitVars, rtVars>>

\* one item of the body stream: ReaderStream yields a chunk of at least one
\* byte and at most its buffer's capacity; take(n) counts items, not bytes
ReadChunk ==
  /\ serve_pc = "streaming"
  /\ reader_stream.pos < file_size
  /\ reader_stream.left # 0
  /\ \E k \in 1..Min(MaxChunk, file_size - reader_stream.pos) :
       /\ body' = body \o Region(reader_stream.pos, reader_stream.pos + k - 1)
       /\ reader_stream' = [pos |-> reader_stream.pos + k,
                            left |-> IF reader_stream.left = Unlimited THEN Unlimited
                                     ELSE reader_stream.left - 1]
  /\ UNCHANGED <<headers, file_size, response, serve_pc, requestVars, builderVars, hostVars, unitVars, rtVars>>

\* the body stream ends: the reader is at end of file or take() is used up
StreamEnd ==
  /\ serve_pc = "streaming"
  /\ (reader_stream.pos >= file_size \/ reader_stream.left = 0)
  /\ serve_pc' = "done"
  /\ UNCHANGED <<headers, file_size, response, body, reader_stream, requestVars, builderVars, hostVars, unitVars, rtVars>>

(***************************************************************************)
(* The requests of the range model: every short text with and without the  *)
(* "bytes=" prefix, and the well-formed shapes with larger numbers.        *)
(***************************************************************************)
RangeChars == {"0", "1", "2", "-", ",", " ", "x", "+"}

Texts(n) == UNION {[1..k -> RangeChars] : k \in 0..n}

RangeNumbers == 0..(MaxFileSize + 1) \cup {10, 12}

\* the header `bytes=a-b`
RangeHeader(a, b) == BytesPrefix \o ToDecimal(a) \o <<"-">> \o ToDecimal(b)

\* the header `bytes=a-`
OpenRangeHeader(a) == BytesPrefix \o ToDecimal(a) \o <<"-">>

\* the header `bytes=-k`
SuffixRangeHeader(k) == BytesPrefix \o <<"-">> \o ToDecimal(k)

\* the header `bytes=a-b,c-d`
MultiRangeHeader(a, b, c, d) ==
  RangeHeader(a, b) \o <<",">> \o ToDecimal(c) \o <<"-">> \o ToDecimal(d)

RangeHeaders ==
  {BytesPrefix \o t : t \in Texts(MaxTail)} \cup Texts(MaxTail)
    \cup {RangeHeader(a, b) : a \in RangeNumbers, b \in RangeNumbers}
    \cup {OpenRangeHeader(a) : a \in RangeNumbers}
    \cup {SuffixRangeHeader(k) : k \in RangeNumbers}
    \cup {MultiRangeHeader(a, b, c, d) : a \in 0..1, b \in 0..MaxFileSize,
                                         c \in 0..1, d \in 0..MaxFileSize}

InitRange ==
  /\ file_size \in 0..MaxFileSize
  /\ headers \in {[present |-> FALSE, value |-> <<>>]}
                 \cup {[present |-> TRUE, value |-> h] : h \in RangeHeaders}
  /\ response = NoResponse
  /\ body = <<>>
  /\ reader_stream = [pos |-> 0, left |-> 0]
  /\ serve_pc = "request"

NextRange == ServeFile \/ ReadChunk \/ StreamEnd

(***************************************************************************)
(* The request handler: handle_request, split_path, try_serve_path,        *)
(* serve_directory and the HTML pages.                                     *)
(***************************************************************************)
\* longest request path, in segments
MaxSegments == 3

HexDigits == <<"0", "1", "2", "3", "4", "5", "6", "7", "8", "9",
               "a", "b", "c", "d", "e", "f">>

UpperHex == <<"A", "B", "C", "D", "E", "F">>

IsHex(c) ==
  \/ \E i \in 1..Len(HexDigits) : HexDigits[i] = c
  \/ \E i \in 1..Len(UpperHex) : UpperHex[i] = c

HexVal(c) ==
  IF \E i \in 1..Len(HexDigits) : HexDigits[i] = c
  THEN (CHOOSE i \in 1..Len(HexDigits) : HexDigits[i] = c) - 1
  ELSE (CHOOSE i \in 1..Len(UpperHex) : UpperHex[i] = c) + 9

\* the character of a decoded byte; "?" stands for every character that no
\* name of the modelled filesystem contains
ByteChar(n) ==
  CASE n = 32 -> " "
    [] n = 37 -> "%"
    [] n = 46 -> "."
    [] n = 47 -> "/"
    [] n = 97 -> "a"
    [] n = 98 -> "b"
    [] n = 100 -> "d"
    [] n = 101 -> "e"
    [] n = 103 -> "g"
    [] n = 104 -> "h"
    [] n = 106 -> "j"
    [] n = 107 -> "k"
    [] n = 112 -> "p"
    [] n = 115 -> "s"
    [] OTHER -> "?"

\* percent_decode_str(..).decode_utf8_lossy(): every %XY with two hex digits
\* becomes its byte, everything else is kept; one pass
RECURSIVE percent_decode(_)
percent_decode(s) ==
  IF s = <<>> THEN <<>>
  ELSE IF s[1] = "%" /\ Len(s) >= 3 /\ IsHex(s[2]) /\ IsHex(s[3])
       THEN <<ByteChar(16 * HexVal(s[2]) + HexVal(s[3]))>>
              \o percent_decode(SubSeq(s, 4, Len(s)))
       ELSE <<s[1]>> \o percent_decode(SubSeq(s, 2, Len(s)))

\* str::trim_start_matches('/')
RECURSIVE trim_start_slashes(_)
trim_start_slashes(s) ==
  IF s # <<>> /\ s[1] = "/" THEN trim_start_slashes(SubSeq(s, 2, Len(s))) ELSE s

\* split_path: splitn(2, '/'), a missing second part is ""
split_path(s) ==
  LET i == IndexOf(s, "/")
  IN IF i = 0 THEN [base |-> s, subpath |-> <<>>]
     ELSE [base |-> SubSeq(s, 1, i - 1), subpath |-> SubSeq(s, i + 1, Len(s))]

\* the components of a path text, split at every '/'
RECURSIVE Components(_)
Components(s) ==
  LET i == IndexOf(s, "/")
  IN IF i = 0 THEN <<s>>
     ELSE <<SubSeq(s, 1, i - 1)>> \o Components(SubSeq(s, i + 1, Len(s)))

\* ---- the filesystem the server runs on: absolute paths as sequences of
\* names, a name being a sequence of characters ----
Name_d == <<"d">>
Name_a == <<"a">>
Name_s == <<"s">>
Name_b == <<"b">>
Name_e == <<"e">>
Name_k == <<"k">>
Name_gh == <<"g", " ", "h">>
Name_n == <<"n">>
Name_pct == <<"g", " ", "%", "6", "1">>

FsDirs == {<<>>, <<Name_d>>, <<Name_d, Name_s>>, <<Name_e>>}

FsFiles == {<<Name_d, Name_a>>, <<Name_d, Name_gh>>, <<Name_d, Name_s, Name_b>>,
            <<Name_e, Name_k>>, <<Name_d, Name_pct>>}

FsFileSize(p) == IF p = <<Name_d, Name_a>> THEN 2 ELSE 1

\* ServerConfig.directories: name -> filesystem path; "j" is mapped to a
\* directory that does not exist (parse_config only warns about it)
Directories == [base \in {<<"p">>, <<"j">>} |->
                  IF base = <<"p">> THEN <<Name_d>> ELSE <<Name_n>>]

\* the kernel's path walk, without symbolic links: "" and "." stay, ".." goes
\* to the parent (the root is its own parent), a name goes to that child;
\* every step needs the current node to be a directory
RECURSIVE Walk(_, _)
Walk(cur, comps) ==
  IF comps = <<>> THEN [ok |-> TRUE, node |-> cur]
  ELSE IF cur \notin FsDirs THEN [ok |-> FALSE, node |-> <<>>]
  ELSE LET c == comps[1]
           rest == SubSeq(comps, 2, Len(comps))
       IN IF c = <<>> \/ c = <<".">> THEN Walk(cur, rest)
          ELSE IF c = <<".", ".">>
               THEN Walk(IF cur = <<>> THEN cur ELSE SubSeq(cur, 1, Len(cur) - 1), rest)
          ELSE IF Append(cur, c) \in FsDirs \cup FsFiles
               THEN Walk(Append(cur, c), rest)
          ELSE [ok |-> FALSE, node |-> <<>>]

\* dir_path.join(subpath): an absolute subpath replaces dir_path
JoinPath(dir_path, subpath) ==
  IF subpath # <<>> /\ subpath[1] = "/" THEN Walk(<<>>, Components(subpath))
  ELSE IF subpath = <<>> THEN Walk(<<>>, dir_path)
  ELSE Walk(<<>>, dir_path \o Components(subpath))

\* the names in directory d
Children(d) == {p[Len(p)] : p \in {q \in FsDirs \cup FsFiles : Len(q) = Len(d) + 1
                                                        /\ SubSeq(q, 1, Len(d)) = d}}

\* every order in which an iteration can return the elements of S
Orders(S) == {f \in [1..Cardinality(S) -> S] : \A i, j \in 1..Cardinality(S) :
                                                  i # j => f[i] # f[j]}

\* html::directory_listing: one anchor per entry, in the order given
directory_listing(full_path, entries) ==
  [i \in 1..Len(entries) |->
     [href |-> IF full_path # <<>> /\ full_path[Len(full_path)] = "/"
               THEN full_path \o entries[i]
               ELSE full_path \o <<"/">> \o entries[i],
      text |-> entries[i]]]

\* html::directory_index: one anchor per mapped name, in the order given
directory_index(names) ==
  [i \in 1..Len(names) |-> [href |-> <<"/">> \o names[i] \o <<"/">>, text |-> names[i]]]

build_ok_response(content_type, links) ==
  [NoResponse EXCEPT !.status = 200, !.content_type = content_type, !.links = links]

build_not_found_response ==
  [NoResponse EXCEPT !.status = 404, !.content_type = "text/plain"]

\* serve_directory when read_dir_entries succeeds: the listing, 200
serve_directory(request_path, entries) ==
  build_ok_response("text/html", directory_listing(request_path, entries))

\* handle_request and try_serve_path, up to the call of serve_file
HandleRequest ==
  /\ handler_pc = "request"
  /\ handler_pc' = "done"
  /\ IF path = <<"/">> \/ path = <<>>
     THEN \E names \in Orders(DOMAIN Directories) :
            /\ response' = build_ok_response("text/html", directory_index(names))
            /\ serve_pc' = "done"
            /\ UNCHANGED file_size
     ELSE LET clean_path == trim_start_slashes(percent_decode(path))
              sp == split_path(clean_path)
          IN IF sp.base \notin DOMAIN Directories
             THEN /\ response' = build_not_found_response
                  /\ serve_pc' = "done"
                  /\ UNCHANGED file_size
             ELSE LET full_path == JoinPath(Directories[sp.base], sp.subpath)
                  IN IF ~full_path.ok
                     THEN /\ response' = build_not_found_response
                          /\ serve_pc' = "done"
                          /\ UNCHANGED file_size
                     ELSE IF full_path.node \in FsFiles
                     THEN \* serve_file: File::open, fs::metadata
                          \/ /\ file_size' = FsFileSize(full_path.node)
                             /\ serve_pc' = "request"
                             /\ UNCHANGED response
                          \* File::open or fs::metadata fails: serve_file and
                          \* try_serve_path return None
                          \/ /\ response' = build_not_found_response
                             /\ serve_pc' = "done"
                             /\ UNCHANGED file_size
                     ELSE LET request_path ==
                                IF sp.subpath = <<>> THEN <<"/">> \o sp.base
                                ELSE <<"/">> \o sp.base \o <<"/">> \o sp.subpath
                          IN \/ \E entries \in Orders(Children(full_path.node)) :
                                  /\ response' = serve_directory(request_path, entries)
                                  /\ serve_pc' = "done"
                                  /\ UNCHANGED file_size
                             \* read_dir_entries fails: serve_directory and
                             \* try_serve_path return None
                             \/ /\ response' = build_not_found_response
                                /\ serve_pc' = "done"
                                /\ UNCHANGED file_size
  /\ UNCHANGED <<headers, body, reader_stream, path, builderVars, hostVars, unitVars, rtVars>>

\* ---- the requests of the handler model ----
Segments == {<<"p">>, <<"j">>, <<"q">>, <<"a">>, <<"s">>, <<"b">>, <<"e">>, <<"k">>,
             <<>>, <<".", ".">>, <<"%", "2", "e", "%", "2", "E">>,
             <<"g", "%", "2", "0", "h">>, <<"g", " ", "h">>,
             <<"g", "%", "2", "0", "%", "6", "1">>}

RECURSIVE JoinSegments(_)
JoinSegments(segs) ==
  IF segs = <<>> THEN <<>>
  ELSE <<"/">> \o segs[1] \o JoinSegments(SubSeq(segs, 2, Len(segs)))

RequestPaths ==
  {<<>>} \cup {JoinSegments(segs) : segs \in UNION {[1..k -> Segments] : k \in 1..MaxSegments}}

InitRequest ==
  /\ path \in RequestPaths
  /\ headers \in {[present |-> FALSE, value |-> <<>>],
                  [present |-> TRUE, value |-> RangeHeader(0, 0)]}
  /\ handler_pc = "request"
  /\ serve_pc = "idle"
  /\ file_size = 0
  /\ response = NoResponse
  /\ body = <<>>
  /\ reader_stream = [pos |-> 0, left |-> 0]

NextRequest == HandleRequest \/ ServeFile \/ ReadChunk \/ StreamEnd

(***************************************************************************)
(* The catalog builder: handle_packages and what it calls.                 *)
(***************************************************************************)
\* most package files under the packages root in the builder model
MaxPkgs == 3

\* PS4Package::HEADER_SIZE
HEADER_SIZE == 416

\* JSON values
JNull == [t |-> "null", v |-> <<>>]

JString(s) == [t |-> "string", v |-> s]

JNumber(n) == [t |-> "number", v |-> n]

JObject(f) == [t |-> "object", v |-> f]

EmptyMap == [k \in {} |-> JNull]

\* CATEGORY_MAP, in table order
CATEGORY_MAP == <<[k |-> "gd", v |-> "games"], [k |-> "gp", v |-> "updates"],
                  [k |-> "ac", v |-> "DLC"], [k |-> "gde", v |-> "homebrew"]>>

\* GenerateArgs: --url, the URL halves of --packages and --icons
BaseUrl == <<"u">>
PkgUrlRoot == <<"p">>
IconUrlRoot == <<"i">>

\* utf8_percent_encode(.., CONTROLS_WITH_SPACE): of the characters of the
\* model only the blank is in the set
RECURSIVE utf8_percent_encode(_)
utf8_percent_encode(s) ==
  IF s = <<>> THEN <<>>
  ELSE (IF s[1] = " " THEN <<"%", "2", "0">> ELSE <<s[1]>>)
         \o utf8_percent_encode(SubSeq(s, 2, Len(s)))

\* str::to_uppercase over the letters a content_id of the model starts with
ToUpper(c) ==
  CASE c = "u" -> "U" [] c = "e" -> "E" [] c = "j" -> "J" [] c = "p" -> "P" [] OTHER -> c

parse_region_from_content_id(content_id) ==
  LET region_code == IF Len(content_id) >= 2
                     THEN <<ToUpper(content_id[1]), ToUpper(content_id[2])>>
                     ELSE <<"?", "?">>
  IN CASE region_code = <<"J", "P">> -> "JAP"
       [] region_code = <<"U", "P">> -> "USA"
       [] region_code = <<"E", "P">> -> "EUR"
       [] OTHER -> "UNK"

\* an SFO value of the map, or null when the key is missing
SfoField(sfo_data, key) ==
  IF key \in DOMAIN sfo_data THEN JString(sfo_data[key]) ELSE JNull

\* convert_sfo_to_json with build_json_schema: (category, link, entry)
convert_sfo_to_json(base_link, pkg_link, pkg_bytes, icon_path, sfo_data, content_id) ==
  [cat |-> IF "CATEGORY" \in DOMAIN sfo_data THEN sfo_data["CATEGORY"] ELSE "gd",
   link |-> base_link \o <<"/">> \o pkg_link,
   entry |-> [title_id |-> SfoField(sfo_data, "TITLE_ID"),
              region |-> JString(parse_region_from_content_id(content_id)),
              name |-> SfoField(sfo_data, "TITLE"),
              version |-> SfoField(sfo_data, "APP_VER"),
              release |-> JNull,
              size |-> JNumber(pkg_bytes),
              min_fw |-> JNull,
              cover_url |-> IF icon_path.some
                            THEN JString(base_link \o <<"/">> \o icon_path.value)
                            ELSE JNull]]

\* CATEGORY_MAP.iter().find(k == cat), or "games"
CategoryOf(cat) ==
  IF \E i \in 1..Len(CATEGORY_MAP) : CATEGORY_MAP[i].k = cat
  THEN CATEGORY_MAP[CHOOSE i \in 1..Len(CATEGORY_MAP) : CATEGORY_MAP[i].k = cat].v
  ELSE "games"

\* the function f with key k set to value v (HashMap::insert)
MapInsert(f, k, v) == [x \in DOMAIN f \cup {k} |-> IF x = k THEN v ELSE f[x]]

\* ---- a file under the packages root, as the builder meets it ----
\*   ext         the extension of its name
\*   stat_ok     whether fs::metadata succeeds on it
\*   pkg_bytes   its length
\*   magic_ok    whether its first four bytes are the PKG magic
\*   file_table  whether its entry table holds entry 0x0200
\*   sfo         "ok", "absent" (no entry named param.sfo) or "invalid"
\*   sfo_data    the key/value map of its param.sfo
\*   content_id  the header's content id
\*   icon_dir_ok whether the icon's parent directory can be created
\*   icon0       whether it holds icon0.png
FullSfo(category) ==
  [k \in {"TITLE_ID", "TITLE", "APP_VER", "CATEGORY"} |->
     CASE k = "TITLE_ID" -> "CUSA1"
       [] k = "TITLE" -> "Demo"
       [] k = "APP_VER" -> "01.00"
       [] OTHER -> category]

GoodPkg(category) ==
  [ext |-> "pkg", stat_ok |-> TRUE, pkg_bytes |-> 1000, magic_ok |-> TRUE,
   file_table |-> TRUE, sfo |-> "ok", sfo_data |-> FullSfo(category),
   content_id |-> <<"U", "P", "0">>, icon_dir_ok |-> TRUE, icon0 |-> TRUE]

\* a good package whose SFO has no CATEGORY key
NoCategoryPkg ==
  [GoodPkg("gd") EXCEPT !.sfo_data = [k \in {"TITLE_ID", "TITLE"} |->
                                        IF k = "TITLE_ID" THEN "CUSA2" ELSE "Two"],
                        !.content_id = <<"e", "p", "1">>,
                        !.pkg_bytes = 2000]

\* every way one package can fail, each differing from a good one in one place
StatFailPkg == [GoodPkg("gd") EXCEPT !.stat_ok = FALSE]
ShortPkg == [GoodPkg("gd") EXCEPT !.pkg_bytes = 100]
BadMagicPkg == [GoodPkg("gd") EXCEPT !.magic_ok = FALSE]
NoFileTablePkg == [GoodPkg("gd") EXCEPT !.file_table = FALSE]
NoSfoPkg == [GoodPkg("gd") EXCEPT !.sfo = "absent"]
BadSfoPkg == [GoodPkg("gd") EXCEPT !.sfo = "invalid"]
IconDirFailPkg == [GoodPkg("gd") EXCEPT !.icon_dir_ok = FALSE]
NoIconPkg == [GoodPkg("gd") EXCEPT !.icon0 = FALSE]
OtherFile == [GoodPkg("gd") EXCEPT !.ext = "txt"]
\* no file at this place of the enumeration
AbsentFile == [GoodPkg("gd") EXCEPT !.ext = ""]

GoodPkgs == {GoodPkg(c) : c \in {"gd", "gp", "ac", "gde", "xx"}} \cup {NoCategoryPkg}

FailingPkgs == {StatFailPkg, ShortPkg, BadMagicPkg, NoFileTablePkg, NoSfoPkg,
                BadSfoPkg, IconDirFailPkg, NoIconPkg}

PkgFiles == GoodPkgs \cup FailingPkgs \cup {OtherFile}

\* the path, relative to the packages root, of the i-th enumerated file: a
\* name with a blank, a name with the characters %20, a name in a
\* subdirectory, ...
RelPaths ==
  <<<<"g", " ", "h">>, <<"g", "%", "2", "0", "h">>, <<"s", "/", "b">>, <<"c">>,
    <<"s", "/", "d">>>>

\* PS4Package::new: Ok or Err
PS4PackageNew(f) == f.pkg_bytes >= HEADER_SIZE /\ f.magic_ok /\ f.file_table

\* SFOProcessor::process(pkg.get_file("param.sfo").unwrap_or_default()): a
\* missing param.sfo gives the empty buffer, which fails the magic test
SfoProcess(f) == f.sfo = "ok"

\* fs::metadata(&path)? : a failed stat returns the error from handle_packages
StatAborts(f) == ~f.stat_ok

\* fs::create_dir_all(parent)? : a failure returns the error from handle_packages
IconDirAborts(f, icons) == icons /\ ~f.icon_dir_ok

\* the catalog before the first package: the four categories, empty
InitialCatalog ==
  [c \in {CATEGORY_MAP[i].v : i \in 1..Len(CATEGORY_MAP)} |-> EmptyMap]

\* the package loop of handle_packages from file i on: [status, data], the
\* status "ok" (goes on with data) or "err" (handle_packages returns Err)
RECURSIVE PackageLoop(_, _, _, _)
PackageLoop(files, i, icons, output_data) ==
  IF i > Len(files) THEN [status |-> "ok", data |-> output_data]
  ELSE LET f == files[i]
           pkg_rel_path == RelPaths[i]
           pkg_url_path == PkgUrlRoot \o <<"/">> \o utf8_percent_encode(pkg_rel_path)
       IN IF f.ext # "pkg" THEN PackageLoop(files, i + 1, icons, output_data)
          ELSE IF StatAborts(f) THEN [status |-> "err", data |-> output_data]
          ELSE IF ~PS4PackageNew(f) THEN PackageLoop(files, i + 1, icons, output_data)
          ELSE IF ~SfoProcess(f) THEN PackageLoop(files, i + 1, icons, output_data)
          ELSE IF IconDirAborts(f, icons) THEN [status |-> "err", data |-> output_data]
          ELSE LET icon_path ==
                     IF icons
                     THEN [some |-> TRUE,
                           value |-> IconUrlRoot \o <<"/">>
                                       \o utf8_percent_encode(pkg_rel_path \o <<".", "p", "n", "g">>)]
                     ELSE [some |-> FALSE, value |-> <<>>]
                   r == convert_sfo_to_json(BaseUrl, pkg_url_path, f.pkg_bytes, icon_path,
                                            f.sfo_data, f.content_id)
                   category == CategoryOf(r.cat)
               IN PackageLoop(files, i + 1, icons,
                              [output_data EXCEPT
                                 ![category] = MapInsert(@, r.link, r.entry)])

\* a merge that replaces a whole entry by the external one
MutMergeShallow(base, external) ==
  IF base.t = "object" /\ external.t = "object"
  THEN JObject([k \in DOMAIN base.v \cup DOMAIN external.v |->
                  IF k \in DOMAIN external.v THEN external.v[k] ELSE base.v[k]])
  ELSE external

\* a merge that adds an external number to a number already there
RECURSIVE MutMergeAdding(_, _)
MutMergeAdding(base, external) ==
  IF base.t = "object" /\ external.t = "object"
  THEN JObject([k \in DOMAIN base.v \cup DOMAIN external.v |->
                  IF k \notin DOMAIN external.v THEN base.v[k]
                  ELSE IF k \in DOMAIN base.v
                       THEN MutMergeAdding(base.v[k], external.v[k])
                       ELSE external.v[k]])
  ELSE IF base.t = "number" /\ external.t = "number"
       THEN JNumber(base.v + external.v)
       ELSE external

\* merge_json_values
RECURSIVE merge_json_values(_, _)
merge_json_values(base, external) ==
  IF base.t = "object" /\ external.t = "object"
  THEN JObject([k \in DOMAIN base.v \cup DOMAIN external.v |->
                  IF k \notin DOMAIN external.v THEN base.v[k]
                  ELSE IF k \in DOMAIN base.v
                       THEN merge_json_values(base.v[k], external.v[k])
                       ELSE external.v[k]])
  ELSE external

\* ---- a file of the external directory ----
\*   ext       the extension of its name
\*   category  its name without ".json"
\*   readable  whether File::open and from_reader succeed
\*   has_data  whether it is an object with an object under "DATA"
\*   data      that object: URL -> JSON value
ExternalUrl == BaseUrl \o <<"/">> \o <<"x">>

ExternalFile(category) ==
  [ext |-> "json", category |-> category, readable |-> TRUE, has_data |-> TRUE,
   data |-> [u \in {ExternalUrl} |-> JObject([k \in {"region"} |-> JString("EUR")])]]

\* an external file that names the URL of the first package, with a field the
\* entry has and a field it has not, and a URL of no package
OverrideFile(category) ==
  [ext |-> "json", category |-> category, readable |-> TRUE, has_data |-> TRUE,
   data |-> [u \in {ExternalUrl,
                    BaseUrl \o <<"/">> \o PkgUrlRoot \o <<"/">>
                      \o utf8_percent_encode(RelPaths[1])} |->
               IF u = ExternalUrl
               THEN JObject([k \in {"region"} |-> JString("EUR")])
               ELSE JObject([k \in {"region", "note"} |->
                               IF k = "region" THEN JString("JAP") ELSE JString("n")])]]

\* the external loop of handle_packages from file i on; "panic" is the
\* unwrap of as_object() on an entry that is not an object
RECURSIVE ExternalLoop(_, _, _)
ExternalLoop(external, i, output_data) ==
  IF i > Len(external) THEN [status |-> "ok", data |-> output_data]
  ELSE LET e == external[i]
       IN IF e.ext # "json" THEN ExternalLoop(external, i + 1, output_data)
          ELSE IF ~e.readable THEN [status |-> "err", data |-> output_data]
          ELSE IF ~e.has_data THEN ExternalLoop(external, i + 1, output_data)
          ELSE IF e.category \in DOMAIN output_data
          THEN LET cat_data == output_data[e.category]
                   merged == merge_json_values(
                               JObject([u \in DOMAIN cat_data |-> JObject(cat_data[u])]),
                               JObject(e.data))
               IN IF \E u \in DOMAIN merged.v : merged.v[u].t # "object"
                  THEN [status |-> "panic", data |-> output_data]
                  ELSE ExternalLoop(external, i + 1,
                         [output_data EXCEPT
                            ![e.category] = [u \in DOMAIN merged.v |-> merged.v[u].v]])
          ELSE IF \E u \in DOMAIN e.data : e.data[u].t # "object"
               THEN [status |-> "panic", data |-> output_data]
               ELSE ExternalLoop(external, i + 1,
                      MapInsert(output_data, e.category,
                                [u \in DOMAIN e.data |-> e.data[u].v]))

\* handle_packages(args): Ok(output_data), Err or a panic
handle_packages(files, icons, external) ==
  LET r == PackageLoop(files, 1, icons, InitialCatalog)
  IN IF r.status # "ok" THEN r ELSE ExternalLoop(external, 1, r.data)

NoResult == [status |-> "none", data |-> InitialCatalog]

\* one call of handle_packages on the directories as they are
HandlePackages ==
  /\ builder_pc = "call"
  /\ processed_data' = handle_packages(pkg_root, args.icons, external_dir)
  /\ builder_pc' = "done"
  /\ UNCHANGED <<pkg_root, external_dir, args, rangeVars, requestVars, hostVars, unitVars, rtVars>>

ExternalDirs ==
  {<<>>, <<ExternalFile("games")>>, <<ExternalFile("extras")>>, <<OverrideFile("games")>>}

InitPackages ==
  /\ pkg_root \in UNION {[1..n -> PkgFiles] : n \in 0..MaxPkgs}
  /\ external_dir \in ExternalDirs
  /\ args \in {[icons |-> b] : b \in BOOLEAN}
  /\ processed_data = NoResult
  /\ builder_pc = "call"

(***************************************************************************)
(* Host mode: main, run_generate, the watcher task and the server.         *)
(***************************************************************************)
\* packages the packages root can hold in host mode
HostSlots == 1
\* most items the channel holds at a time
MaxChannel == 1

\* the names under the watched packages root: the first HostSlots are
\* packages that parse, the last is a name that cannot be stat'ed (a dangling
\* symbolic link x.pkg)
SlotFile(i) == IF i <= HostSlots THEN GoodPkg("gd") ELSE StatFailPkg

HostRoots ==
  {r \in [1..(HostSlots + 1) -> {GoodPkg("gd"), StatFailPkg, AbsentFile}] :
     \A i \in 1..(HostSlots + 1) : r[i] \in {SlotFile(i), AbsentFile}}

\* an item of the channel: Ok(event) of a kind, or Err(e) as kind "Error"
Event(kind) == [kind |-> kind]

NoEvent == Event("None")

\* a file of the output directory: File::create leaves it empty, write_all
\* fills in the whole text
EmptyFile == [content |-> "empty", entries |-> EmptyMap]

CompleteFile(entries) == [content |-> "complete", entries |-> entries]

NoFiles == [c \in {} |-> EmptyFile]

\* one execution of run_generate: where it is, what handle_packages
\* returned, the categories the loop has still to visit, in its order, and
\* the file created and not yet written
IdleRun == [pc |-> "idle", data |-> NoFiles, todo |-> <<>>, created |-> ""]

Reverse(s) == [i \in 1..Len(s) |-> s[Len(s) + 1 - i]]

\* the category names of the model, in one fixed order
CategoryNames == <<"DLC", "extras", "games", "homebrew", "updates">>

\* `for (category, entries) in processed_data` visits the HashMap in the
\* order its hasher's random seed gives: the seed is an input of the run,
\* drawn here from two seeds that give opposite orders
IterationOrders(data) ==
  LET InData(c) == c \in DOMAIN data
      up == SelectSeq(CategoryNames, InData)
  IN {up, Reverse(up)}

\* the JSON files the model's client asks for
Requested == {"games"}

NoConn == [pc |-> "idle", file |-> "", observed |-> ""]

Alive == exit_code = "running"

\* ---- run_generate, executed by `who`: "main" or "watcher" ----
\* the call: handle_packages(&args)?
GenHandlePackages(who) ==
  /\ Alive
  /\ run[who].pc = "handle_packages"
  /\ LET r == handle_packages(pkg_root, args.icons, external_dir)
     IN IF r.status = "ok"
        THEN \E order \in IterationOrders(r.data) :
               run' = [run EXCEPT ![who] = [pc |-> "write", data |-> r.data,
                                            todo |-> order, created |-> ""]]
        ELSE run' = [run EXCEPT ![who] = [IdleRun EXCEPT !.pc = "err"]]
  /\ UNCHANGED <<main_pc, watcher_pc, channel, watching, event, out_dir,
                 running, last_result, conn, exit_code>>
  /\ UNCHANGED <<builderVars, rangeVars, requestVars, unitVars, rtVars>>

\* File::create(&json_file)? for the next category of the iteration
GenCreate(who) ==
  /\ Alive
  /\ run[who].pc = "write"
  /\ run[who].created = ""
  /\ run[who].todo # <<>>
  /\ LET category == Head(run[who].todo)
     IN /\ out_dir' = MapInsert(out_dir, category, EmptyFile)
        /\ run' = [run EXCEPT ![who].created = category]
  /\ UNCHANGED <<main_pc, watcher_pc, channel, watching, event,
                 running, last_result, conn, exit_code>>
  /\ UNCHANGED <<builderVars, rangeVars, requestVars, unitVars, rtVars>>

\* file.write_all(json_str.as_bytes())?
GenWrite(who) ==
  /\ Alive
  /\ run[who].pc = "write"
  /\ run[who].created # ""
  /\ LET category == run[who].created
     IN /\ out_dir' = MapInsert(out_dir, category, CompleteFile(run[who].data[category]))
        /\ run' = [run EXCEPT ![who].created = "", ![who].todo = Tail(@)]
  /\ UNCHANGED <<main_pc, watcher_pc, channel, watching, event,
                 running, last_result, conn, exit_code>>
  /\ UNCHANGED <<builderVars, rangeVars, requestVars, unitVars, rtVars>>

\* whether run_generate has returned to its caller
GenReturned(who) ==
  \/ run[who].pc = "err"
  \/ run[who].pc = "write" /\ run[who].todo = <<>> /\ run[who].created = ""

GenResult(who) ==
  IF run[who].pc = "err" THEN [status |-> "err", data |-> NoFiles]
  ELSE [status |-> "ok", data |-> run[who].data]

\* ---- main, Commands::Host ----
\* run_generate(generate_args.clone()) is called
MainStartGenerate ==
  /\ Alive
  /\ main_pc = "start"
  /\ main_pc' = "generate"
  /\ run' = [run EXCEPT !["main"] = [IdleRun EXCEPT !.pc = "handle_packages"]]
  /\ running' = running + 1
  /\ UNCHANGED <<watcher_pc, channel, watching, event, out_dir,
                 last_result, conn, exit_code>>
  /\ UNCHANGED <<builderVars, rangeVars, requestVars, unitVars, rtVars>>

\* `.await?` on the initial run_generate: an error returns from main, which
\* ends the process with a non-zero status; a success goes on to task::spawn
\* of the watcher and to run_server
MainAfterGenerate ==
  /\ Alive
  /\ main_pc = "generate"
  /\ GenReturned("main")
  /\ running' = running - 1
  /\ last_result' = GenResult("main")
  /\ run' = [run EXCEPT !["main"] = IdleRun]
  /\ IF run["main"].pc = "err"
     THEN /\ main_pc' = "error"
          /\ exit_code' = "nonzero"
          /\ UNCHANGED watcher_pc
     ELSE /\ main_pc' = "bind"
          /\ watcher_pc' = "new"
          /\ UNCHANGED exit_code
  /\ UNCHANGED <<channel, watching, event, out_dir, conn>>
  /\ UNCHANGED <<builderVars, rangeVars, requestVars, unitVars, rtVars>>

\* run_server: TcpListener::bind(addr).await?
ServerBind ==
  /\ Alive
  /\ main_pc = "bind"
  /\ \/ main_pc' = "accept" /\ UNCHANGED exit_code
     \/ main_pc' = "error" /\ exit_code' = "nonzero"
  /\ UNCHANGED <<watcher_pc, channel, watching, event, out_dir, run,
                 running, last_result, conn>>
  /\ UNCHANGED <<builderVars, rangeVars, requestVars, unitVars, rtVars>>

\* run_server: listener.accept().await? returned an error
ServerAcceptError ==
  /\ Alive
  /\ main_pc = "accept"
  /\ main_pc' = "error"
  /\ exit_code' = "nonzero"
  /\ UNCHANGED <<watcher_pc, channel, watching, event, out_dir, run,
                 running, last_result, conn>>
  /\ UNCHANGED <<builderVars, rangeVars, requestVars, unitVars, rtVars>>

\* run_server: a connection is accepted and its task spawned; the request is
\* for the JSON file of a category, which serve_file opens and stats
ServerAccept ==
  /\ Alive
  /\ main_pc = "accept"
  /\ conn.pc \in {"idle", "done"}
  /\ \E category \in Requested \cap DOMAIN out_dir :
       conn' = [pc |-> "opened", file |-> category, observed |-> ""]
  /\ UNCHANGED <<main_pc, watcher_pc, channel, watching, event, out_dir,
                 run, running, last_result, exit_code>>
  /\ UNCHANGED <<builderVars, rangeVars, requestVars, unitVars, rtVars>>

\* the connection's body stream reads the file
ConnRead ==
  /\ Alive
  /\ conn.pc = "opened"
  /\ conn' = [pc |-> "done", file |-> "", observed |-> out_dir[conn.file].content]
  /\ UNCHANGED <<main_pc, watcher_pc, channel, watching, event, out_dir,
                 run, running, last_result, exit_code>>
  /\ UNCHANGED <<builderVars, rangeVars, requestVars, unitVars, rtVars>>

\* ---- the watcher task ----
\* Watcher::new(watch_path): the notifier is created and the packages root
\* registered, or one of the two fails and the task returns the error
WatcherNew ==
  /\ Alive
  /\ watcher_pc = "new"
  /\ \/ watcher_pc' = "recv" /\ watching' = TRUE
     \/ watcher_pc' = "failed" /\ UNCHANGED watching
  /\ UNCHANGED <<main_pc, channel, event, out_dir, run, running,
                 last_result, conn, exit_code>>
  /\ UNCHANGED <<builderVars, rangeVars, requestVars, unitVars, rtVars>>

\* a loop that answers Access events with a rebuild as well
MutTriggersRebuild(kind) == kind \in {"Create", "Modify", "Remove", "Access"}

\* the event kinds that run_with_generate answers with a rebuild
TriggersRebuild(kind) == kind \in {"Create", "Modify", "Remove"}

\* a loop that takes the next item while run_generate is still running
MutWatcherReady == watcher_pc \in {"recv", "generate"}

\* the loop is at self.receiver.recv(): it gets there only after the
\* run_generate call of the previous event has returned. The sender lives
\* in the notifier's callback; the end of the loop on a closed channel is
\* part of the loop model further down
WatcherReady == watcher_pc = "recv"

\* run_with_generate: recv() returns an item; a Create, Modify or Remove
\* event calls run_generate, every other item is logged
WatcherRecv ==
  /\ Alive
  /\ WatcherReady
  /\ channel # <<>>
  /\ channel' = Tail(channel)
  /\ IF TriggersRebuild(Head(channel).kind)
     THEN /\ event' = Head(channel)
          /\ watcher_pc' = "generate"
          /\ run' = [run EXCEPT !["watcher"] = [IdleRun EXCEPT !.pc = "handle_packages"]]
          /\ running' = running + 1
     ELSE UNCHANGED <<event, watcher_pc, run, running>>
  /\ UNCHANGED <<main_pc, watching, out_dir, last_result, conn,
                 exit_code>>
  /\ UNCHANGED <<builderVars, rangeVars, requestVars, unitVars, rtVars>>

\* run_generate returned into the loop: both results are logged
WatcherAfterGenerate ==
  /\ Alive
  /\ watcher_pc = "generate"
  /\ GenReturned("watcher")
  /\ running' = running - 1
  /\ last_result' = GenResult("watcher")
  /\ run' = [run EXCEPT !["watcher"] = IdleRun]
  /\ watcher_pc' = "recv"
  /\ event' = NoEvent
  /\ UNCHANGED <<main_pc, channel, watching, out_dir, conn,
                 exit_code>>
  /\ UNCHANGED <<builderVars, rangeVars, requestVars, unitVars, rtVars>>

\* ---- the environment: the filesystem and the notifier ----
\* the notifier's callback: sender.send(res), while the root is watched
Send(item) ==
  IF watching /\ Len(channel) < MaxChannel
  THEN channel' = Append(channel, item)
  ELSE UNCHANGED channel

\* a file appears under the packages root
FsCreate ==
  /\ Alive
  /\ \E i \in 1..(HostSlots + 1) :
       /\ pkg_root[i] = AbsentFile
       /\ pkg_root' = [pkg_root EXCEPT ![i] = SlotFile(i)]
       /\ Send(Event("Create"))
  /\ UNCHANGED <<main_pc, watcher_pc, watching, event, out_dir, run,
                 running, last_result, conn, exit_code>>
  /\ UNCHANGED <<external_dir, args, processed_data, builder_pc, rangeVars, requestVars, unitVars, rtVars>>

\* a file under the packages root is removed
FsRemove ==
  /\ Alive
  /\ \E i \in 1..(HostSlots + 1) :
       /\ pkg_root[i] # AbsentFile
       /\ pkg_root' = [pkg_root EXCEPT ![i] = AbsentFile]
       /\ Send(Event("Remove"))
  /\ UNCHANGED <<main_pc, watcher_pc, watching, event, out_dir, run,
                 running, last_result, conn, exit_code>>
  /\ UNCHANGED <<external_dir, args, processed_data, builder_pc, rangeVars, requestVars, unitVars, rtVars>>

\* a file is rewritten in place, read, or touched in another way; or the
\* notifier reports an error
FsNotify ==
  /\ Alive
  /\ watching /\ Len(channel) < MaxChannel
  /\ \E kind \in {"Modify", "Access", "Other", "Error"} : Send(Event(kind))
  /\ UNCHANGED <<main_pc, watcher_pc, watching, event, out_dir, run,
                 running, last_result, conn, exit_code>>
  /\ UNCHANGED <<builderVars, rangeVars, requestVars, unitVars, rtVars>>

\* the operator adds or removes extras.json in the external directory (which
\* is not watched)
ExternalChange ==
  /\ Alive
  /\ external_dir' = IF external_dir = <<>> THEN <<ExternalFile("extras")>> ELSE <<>>
  /\ UNCHANGED <<main_pc, watcher_pc, channel, watching, event, out_dir,
                 run, running, last_result, conn, exit_code>>
  /\ UNCHANGED <<pkg_root, args, processed_data, builder_pc, rangeVars, requestVars, unitVars, rtVars>>

InitHost ==
  /\ pkg_root \in HostRoots
  /\ external_dir \in {<<>>, <<ExternalFile("extras")>>}
  /\ args = [icons |-> FALSE]
  /\ processed_data = NoResult
  /\ builder_pc = "idle"
  /\ main_pc = "start"
  /\ watcher_pc = "unspawned"
  /\ channel = <<>>
  /\ watching = FALSE
  /\ event = NoEvent
  /\ out_dir = NoFiles
  /\ run = [who \in {"main", "watcher"} |-> IdleRun]
  /\ running = 0
  /\ last_result = [status |-> "none", data |-> NoFiles]
  /\ conn = NoConn
  /\ exit_code = "running"

MainStep ==
  \/ MainStartGenerate
  \/ GenHandlePackages("main")
  \/ GenCreate("main")
  \/ GenWrite("main")
  \/ MainAfterGenerate

WatcherStep ==
  \/ WatcherNew
  \/ WatcherRecv
  \/ GenHandlePackages("watcher")
  \/ GenCreate("watcher")
  \/ GenWrite("watcher")
  \/ WatcherAfterGenerate

ServerStep == ServerBind \/ ServerAcceptError \/ ServerAccept \/ ConnRead

EnvStep == FsCreate \/ FsRemove \/ FsNotify \/ ExternalChange

(***************************************************************************)
(* merge_json_values on its own.                                           *)
(***************************************************************************)
\* URLs a category or an external DATA object of the merge model can name
MaxMergeUrls == 1

MergeUrls == 1..MaxMergeUrls

MergeFields == {"name", "size"}

\* all maps from a subset of the keys to the values
PartialMaps(keys, values) == UNION {[s -> values] : s \in SUBSET keys}

\* the JSON values under a field: scalars and small objects
MergeScalars == {JString(<<"a">>), JNumber(1)}

MergeValues ==
  MergeScalars \cup {JObject(EmptyMap), JObject([k \in {"name"} |-> JString(<<"a">>)])}

\* an entry, as a JSON object
MergeEntries == {JObject(f) : f \in PartialMaps(MergeFields, MergeValues)}

\* to_value(cat_data.clone()): a category of the catalog as a JSON object
MergeCategories == {JObject(f) : f \in PartialMaps(MergeUrls, MergeEntries)}

\* JsonValue::Object(data.clone()): the DATA of an external file, whose
\* values are whatever JSON the file holds
MergeExternals ==
  {JObject(f) : f \in PartialMaps(MergeUrls, MergeEntries \cup MergeScalars)}

\* merge_json_values(&mut cat_data_value, external) is called
MergeOnce ==
  /\ merge_pc = "call"
  /\ merge_once' = merge_json_values(merge_base, merge_external)
  /\ merge_pc' = "once"
  /\ UNCHANGED <<merge_base, merge_external, merge_twice>>
  /\ UNCHANGED <<rangeVars, requestVars, builderVars, hostVars, loopVars, sfoVars, pkgfVars, rtVars>>

\* and called again on its result with the same external value
MergeAgain ==
  /\ merge_pc = "once"
  /\ merge_twice' = merge_json_values(merge_once, merge_external)
  /\ merge_pc' = "done"
  /\ UNCHANGED <<merge_base, merge_external, merge_once>>
  /\ UNCHANGED <<rangeVars, requestVars, builderVars, hostVars, loopVars, sfoVars, pkgfVars, rtVars>>

InitMerge ==
  /\ merge_base \in MergeCategories
  /\ merge_external \in MergeExternals
  /\ merge_once = JNull
  /\ merge_twice = JNull
  /\ merge_pc = "call"

NextMerge == MergeOnce \/ MergeAgain

(***************************************************************************)
(* The watcher loops on their own: Watcher::run and run_with_generate.     *)
(***************************************************************************)
\* most items the channel of the loop model holds at a time
MaxLoopChannel == 2
\* most Create, Modify and Remove events sent in a run of the loop model
MaxLoopEvents == 2

\* what the notifier can send: Ok(event) of a kind, or Err(e)
LoopKinds == {"Create", "Modify", "Remove", "Access", "Other", "Error"}

\* an external file whose DATA holds a number under a URL
ScalarFile(category) ==
  [ext |-> "json", category |-> category, readable |-> TRUE, has_data |-> TRUE,
   data |-> [u \in {ExternalUrl} |-> JNumber(1)]]

\* the external directory during a rebuild of the loop model
LoopExternalDirs == {<<>>, <<ExternalFile("games")>>, <<ScalarFile("games")>>}

\* the line Watcher::run logs for an item
RunLog(kind) ==
  CASE kind = "Create" -> "File created"
    [] kind = "Modify" -> "File modified"
    [] kind = "Remove" -> "File removed"
    [] kind = "Access" -> "File accessed"
    [] kind = "Error" -> "Watcher error"
    [] OTHER -> "Other event"

\* the line run_with_generate logs for an item that starts no rebuild
GenerateLog(kind) ==
  CASE kind = "Access" -> "File accessed event ignored"
    [] kind = "Error" -> "Watcher error"
    [] OTHER -> "Other event ignored"

\* `while let Ok(event_result) = self.receiver.recv()`: an item is received
LoopRecv ==
  /\ loop_pc = "recv"
  /\ loop_channel # <<>>
  /\ loop_channel' = Tail(loop_channel)
  /\ loop_item' = Head(loop_channel)
  /\ IF loop_mode = "run"
     THEN /\ loop_log' = RunLog(Head(loop_channel))
          /\ UNCHANGED loop_pc
     ELSE IF TriggersRebuild(Head(loop_channel))
          THEN /\ loop_pc' = "generate"
               /\ UNCHANGED loop_log
          ELSE /\ loop_log' = GenerateLog(Head(loop_channel))
               /\ UNCHANGED loop_pc
  /\ loop_started' = IF loop_pc' = "generate" THEN loop_started + 1 ELSE loop_started
  /\ UNCHANGED <<loop_mode, loop_sender, loop_result, loop_sent>>
  /\ UNCHANGED <<rangeVars, requestVars, builderVars, hostVars, mergeVars, sfoVars, pkgfVars, rtVars>>

\* crate::run_generate(args.clone()).await inside the loop: Ok and Err are
\* logged and the loop goes on; a panic of handle_packages unwinds the task
LoopGenerate ==
  /\ loop_pc = "generate"
  /\ LET r == handle_packages(pkg_root, args.icons, external_dir)
     IN \/ /\ r.status = "ok"
           /\ loop_log' = "Regenerated JSON files due to filesystem change"
           /\ loop_pc' = "recv"
        \/ /\ r.status = "err"
           /\ loop_log' = "Failed to regenerate JSON files"
           /\ loop_pc' = "recv"
        \/ /\ r.status = "panic"
           /\ loop_pc' = "panicked"
           /\ UNCHANGED loop_log
        \* File::create or write_all fails in run_generate's loop
        \/ /\ r.status = "ok"
           /\ loop_log' = "Failed to regenerate JSON files"
           /\ loop_pc' = "recv"
  /\ UNCHANGED <<loop_mode, loop_channel, loop_sender, loop_item, loop_result,
                 loop_sent, loop_started>>
  /\ UNCHANGED <<rangeVars, requestVars, builderVars, hostVars, mergeVars, sfoVars, pkgfVars, rtVars>>

\* recv() returns Err: the channel is empty and its sender is gone; the loop
\* ends, "Watcher channel closed" is logged and Ok(()) returned
LoopClosed ==
  /\ loop_pc = "recv"
  /\ loop_channel = <<>>
  /\ ~loop_sender
  /\ loop_log' = "Watcher channel closed"
  /\ loop_result' = "Ok"
  /\ loop_pc' = "returned"
  /\ UNCHANGED <<loop_mode, loop_channel, loop_sender, loop_item, loop_sent, loop_started>>
  /\ UNCHANGED <<rangeVars, requestVars, builderVars, hostVars, mergeVars, sfoVars, pkgfVars, rtVars>>

\* the notifier's callback: sender.send(res)
NotifierSend ==
  /\ loop_sender
  /\ loop_pc \in {"recv", "generate"}
  /\ Len(loop_channel) < MaxLoopChannel
  /\ \E kind \in LoopKinds :
       /\ TriggersRebuild(kind) => loop_sent < MaxLoopEvents
       /\ loop_channel' = Append(loop_channel, kind)
       /\ loop_sent' = IF TriggersRebuild(kind) THEN loop_sent + 1 ELSE loop_sent
  /\ UNCHANGED <<loop_mode, loop_pc, loop_item, loop_log, loop_result, loop_started>>
  /\ UNCHANGED loop_sender
  /\ UNCHANGED <<rangeVars, requestVars, builderVars, hostVars, mergeVars, sfoVars, pkgfVars, rtVars>>

\* the notifier's thread ends and drops its callback, the channel's only
\* sender
NotifierEnds ==
  /\ loop_sender
  /\ loop_pc \in {"recv", "generate"}
  /\ loop_sender' = FALSE
  /\ UNCHANGED <<loop_mode, loop_pc, loop_channel, loop_item, loop_log, loop_result,
                 loop_sent, loop_started>>
  /\ UNCHANGED <<rangeVars, requestVars, builderVars, hostVars, mergeVars, sfoVars, pkgfVars, rtVars>>

\* the directories change between rebuilds
LoopFsChange ==
  /\ loop_pc \in {"recv", "generate"}
  /\ \E root \in HostRoots, ext \in LoopExternalDirs :
       /\ <<root, ext>> # <<pkg_root, external_dir>>
       /\ pkg_root' = root
       /\ external_dir' = ext
  /\ UNCHANGED <<args, processed_data, builder_pc>>
  /\ UNCHANGED <<loop_mode, loop_pc, loop_channel, loop_sender, loop_item,
                 loop_log, loop_result, loop_sent, loop_started>>
  /\ UNCHANGED <<rangeVars, requestVars, hostVars, mergeVars, sfoVars, pkgfVars, rtVars>>

InitLoop ==
  /\ loop_mode \in {"run", "run_with_generate"}
  /\ loop_pc = "recv"
  /\ loop_channel = <<>>
  /\ loop_sender = TRUE
  /\ loop_item = "None"
  /\ loop_log = ""
  /\ loop_result = "none"
  /\ loop_sent = 0
  /\ loop_started = 0
  /\ pkg_root \in HostRoots
  /\ external_dir \in LoopExternalDirs
  /\ args = [icons |-> FALSE]
  /\ processed_data = NoResult
  /\ builder_pc = "idle"

NextLoop ==
  LoopRecv \/ LoopGenerate \/ LoopClosed \/ NotifierSend \/ NotifierEnds \/ LoopFsChange

(***************************************************************************)
(* SFOProcessor::process on its own.                                       *)
(***************************************************************************)
\* most entries in the entry table of a buffer of the model
MaxSfoEntries == 2

\* SFOProcessor::HEADER_SIZE and ENTRY_SIZE
SFO_HEADER_SIZE == 20
ENTRY_SIZE == 16

\* the data types process decodes: 0x0204 and 0x0404
FMT_UTF8 == 516
FMT_INT32 == 1028

\* ---- an SFO buffer: magic, header, entry table, then the bytes of the key
\* and data tables ----
\*   magic_ok          whether it starts with \0PSF
\*   truncated         whether it ends inside the header
\*   entry_count       the header's entry count
\*   key_table_start, data_table_start   the header's table offsets
\*   entries           the entry table: [key_pos, data_type, data_size, data_pos]
\*   tail              the bytes after the entry table
TableEnd(b) == SFO_HEADER_SIZE + Len(b.entries) * ENTRY_SIZE

\* buffer.len()
BufferLen(b) == IF b.truncated THEN 10 ELSE TableEnd(b) + Len(b.tail)

\* buffer[p], for an offset behind the entry table (the table offsets of the
\* model's buffers all point there)
BufferByte(b, p) == b.tail[p - TableEnd(b) + 1]

\* the bytes of the model's strings as characters
AsciiChar(n) ==
  CASE n = 49 -> "1"
    [] n = 65 -> "A"
    [] n = 66 -> "B"
    [] n = 67 -> "C"
    [] OTHER -> "?"

\* extract_string(buffer, start): the bytes from start up to a NUL or the end
RECURSIVE extract_string(_, _)
extract_string(b, pos) ==
  IF pos < BufferLen(b) /\ BufferByte(b, pos) # 0
  THEN <<AsciiChar(BufferByte(b, pos))>> \o extract_string(b, pos + 1)
  ELSE <<>>

\* &buffer[from..to]
Slice(b, from, to) == [i \in 1..(to - from) |-> BufferByte(b, from + i - 1)]

\* String::from_utf8_lossy(raw_value).trim_end_matches('\x00')
RECURSIVE TrimEndNul(_)
TrimEndNul(raw) ==
  IF raw # <<>> /\ raw[Len(raw)] = 0 THEN TrimEndNul(SubSeq(raw, 1, Len(raw) - 1))
  ELSE [i \in 1..Len(raw) |-> IF raw[i] = 0 THEN "NUL" ELSE AsciiChar(raw[i])]

\* hex::encode(raw_value): two lowercase digits a byte
RECURSIVE HexEncode(_)
HexEncode(raw) ==
  IF raw = <<>> THEN <<>>
  ELSE <<HexDigits[(raw[1] \div 16) + 1], HexDigits[(raw[1] % 16) + 1]>>
         \o HexEncode(Tail(raw))

\* u32::from_le_bytes
U32FromLe(raw) == raw[1] + 256 * raw[2] + 65536 * raw[3] + 16777216 * raw[4]

\* the match on data_type: the value, or the Err of try_into() on a slice
\* that is not four bytes long
SfoValue(data_type, raw) ==
  IF data_type = FMT_UTF8 THEN [ok |-> TRUE, value |-> TrimEndNul(raw)]
  ELSE IF data_type = FMT_INT32
       THEN IF Len(raw) < 4 THEN [ok |-> TRUE, value |-> HexEncode(raw)]
            ELSE IF Len(raw) = 4 THEN [ok |-> TRUE, value |-> ToDecimal(U32FromLe(raw))]
            ELSE [ok |-> FALSE, value |-> <<>>]
  ELSE [ok |-> TRUE, value |-> HexEncode(raw)]

SfoErr == [status |-> "err", map |-> EmptyMap]

\* the second loop of process, from entry i on
RECURSIVE SfoEntryLoop(_, _, _)
SfoEntryLoop(b, i, output) ==
  IF i > b.entry_count THEN [status |-> "ok", map |-> output]
  ELSE LET e == b.entries[i]
           key_at == b.key_table_start + e.key_pos
           data_at == b.data_table_start + e.data_pos
       IN IF key_at >= BufferLen(b) THEN SfoEntryLoop(b, i + 1, output)
          ELSE IF data_at + e.data_size > BufferLen(b) THEN SfoEntryLoop(b, i + 1, output)
          ELSE LET key == extract_string(b, key_at)
                   v == SfoValue(e.data_type, Slice(b, data_at, data_at + e.data_size))
               IN IF ~v.ok THEN SfoErr
                  ELSE SfoEntryLoop(b, i + 1, MapInsert(output, key, v.value))

\* SFOProcessor::process(buffer)
process(b) ==
  IF ~b.magic_ok THEN SfoErr
  ELSE IF BufferLen(b) < SFO_HEADER_SIZE THEN SfoErr
  ELSE IF BufferLen(b) < SFO_HEADER_SIZE + b.entry_count * ENTRY_SIZE THEN SfoErr
  ELSE SfoEntryLoop(b, 1, EmptyMap)

\* ---- the buffers of the model ----
\* keys "A" and "B", then eight bytes of data: "1" and three NULs, "CC" and
\* two NULs
SfoTail == <<65, 0, 66, 0, 49, 0, 0, 0, 67, 67, 0, 0>>

\* an entry: a key in range or not, one of the two known types or another,
\* a size that is short, four, wide or out of range, the first or the second
\* word of the data
SfoEntries ==
  [key_pos : {0, 2, 64}, data_type : {FMT_UTF8, FMT_INT32, 4},
   data_size : {2, 4, 8, 64}, data_pos : {0, 4}]

SfoBuffers ==
  LET tables == UNION {[1..n -> SfoEntries] : n \in 1..MaxSfoEntries}
      Good(es) == [magic_ok |-> TRUE, truncated |-> FALSE, entry_count |-> Len(es),
                   key_table_start |-> SFO_HEADER_SIZE + Len(es) * ENTRY_SIZE,
                   data_table_start |-> SFO_HEADER_SIZE + Len(es) * ENTRY_SIZE + 4,
                   entries |-> es, tail |-> SfoTail]
      one == [key_pos |-> 0, data_type |-> FMT_UTF8, data_size |-> 4, data_pos |-> 0]
  IN {Good(es) : es \in tables}
       \cup {[Good(<<one>>) EXCEPT !.magic_ok = FALSE],
             [Good(<<one>>) EXCEPT !.truncated = TRUE],
             [Good(<<one>>) EXCEPT !.entry_count = 3]}

NoBuffer ==
  [magic_ok |-> FALSE, truncated |-> TRUE, entry_count |-> 0, key_table_start |-> 0,
   data_table_start |-> 0, entries |-> <<>>, tail |-> <<>>]

\* process(buffer) is called
SfoProcessCall ==
  /\ sfo_pc = "call"
  /\ sfo_result' = process(sfo_buffer)
  /\ sfo_pc' = "done"
  /\ UNCHANGED sfo_buffer
  /\ UNCHANGED <<rangeVars, requestVars, builderVars, hostVars, mergeVars, loopVars, pkgfVars, rtVars>>

InitSfo ==
  /\ sfo_buffer \in SfoBuffers
  /\ sfo_result = [status |-> "none", map |-> EmptyMap]
  /\ sfo_pc = "call"

(***************************************************************************)
(* PS4Package::new and get_file on their own.                              *)
(***************************************************************************)
\* most entries in the entry table of a PKG file of the model
MaxPkgEntries == 2

\* PS4Package::FILE_POS and ENTRY_SIZE
FILE_POS == 512
PKG_ENTRY_SIZE == 32

\* ---- a PKG file ----
\*   file_size         metadata().len()
\*   magic_ok          whether the header starts with VALID_MAGIC
\*   table_pos, entry_count, entry_data_size   the header's fields
\*   entries           the entry table: [entry_id, name_pos, offset, size]
\*   area              the bytes after the entry table, up to the end
AreaStart(f) == f.table_pos + Len(f.entries) * PKG_ENTRY_SIZE

\* the byte at offset p of the file, for an offset behind the entry table
\* (the name buffers of the model's files all start there)
FileByte(f, p) == f.area[p - AreaStart(f) + 1]

\* the bytes of the model's names as characters
NameChar(n) == CASE n = 112 -> "p" [] n = 113 -> "q" [] OTHER -> "?"

\* extract_string(&name_buffer, start), the name buffer being the bytes
\* [from, from + len) of the file
RECURSIVE extract_name(_, _, _, _)
extract_name(f, from, len, pos) ==
  IF pos < len /\ FileByte(f, from + pos) # 0
  THEN <<NameChar(FileByte(f, from + pos))>> \o extract_name(f, from, len, pos + 1)
  ELSE <<>>

\* FileEntry: name <<>> is None (Some("") is never stored)
FileEntry(e) == [name_pos |-> e.name_pos, offset |-> e.offset, size |-> e.size, name |-> <<>>]

\* the first loop of parse_files: file_entries.insert(entry_id, ..) for the
\* entries of the table in order, a later entry replacing an earlier one of
\* the same id
RECURSIVE InsertEntries(_, _, _)
InsertEntries(f, i, file_entries) ==
  IF i > f.entry_count THEN file_entries
  ELSE InsertEntries(f, i + 1,
         [id \in DOMAIN file_entries \cup {f.entries[i].entry_id} |->
            IF id = f.entries[i].entry_id THEN FileEntry(f.entries[i])
            ELSE file_entries[id]])

NoEntries == [id \in {} |-> FileEntry([name_pos |-> 0, offset |-> 0, size |-> 0])]

PkgErr == [status |-> "err", file_entries |-> NoEntries]

\* parse_files
parse_files(f) ==
  IF f.file_size < f.table_pos + f.entry_count * PKG_ENTRY_SIZE THEN PkgErr
  ELSE LET file_entries == InsertEntries(f, 1, NoEntries)
       IN IF file_entries = NoEntries THEN PkgErr
          ELSE IF FILE_POS \notin DOMAIN file_entries THEN PkgErr
          ELSE LET file_pos == file_entries[FILE_POS]
               IN IF f.file_size < file_pos.offset + f.entry_data_size THEN PkgErr
                  ELSE [status |-> "ok",
                        file_entries |->
                          [id \in DOMAIN file_entries |->
                             IF file_entries[id].name_pos >= f.entry_data_size
                             THEN file_entries[id]
                             ELSE [file_entries[id] EXCEPT
                                     !.name = extract_name(f, file_pos.offset,
                                                f.entry_data_size, file_entries[id].name_pos)]]]

\* PS4Package::new: parse_package, then parse_files
PS4Package_new(f) ==
  IF f.file_size < HEADER_SIZE THEN PkgErr
  ELSE IF ~f.magic_ok THEN PkgErr
  ELSE parse_files(f)

\* u32::from_str_radix(identifier.trim_start_matches("0x"), 16) on the
\* identifiers of the model, none of which starts with 0x
RECURSIVE HexValue(_)
HexValue(s) ==
  IF s = <<>> THEN 0 ELSE HexValue(SubSeq(s, 1, Len(s) - 1)) * 16 + HexVal(s[Len(s)])

ParsesAsHex(s) == s # <<>> /\ \A i \in 1..Len(s) : IsHex(s[i])

\* locate_file: the entries the lookup can return; by name it is the first
\* match in the HashMap's iteration order, which is any match
locate_file(file_entries, identifier) ==
  IF ParsesAsHex(identifier)
  THEN {id \in DOMAIN file_entries : id = HexValue(identifier)}
  ELSE {id \in DOMAIN file_entries : file_entries[id].name = identifier}

NotRead == [status |-> "none", from |-> 0, to |-> 0]

\* get_file on the entry located: Err without a read when offset + size is
\* beyond the file, else the bytes [offset, offset + size) are read
get_file(f, entry) ==
  IF entry.offset + entry.size > f.file_size
  THEN [status |-> "err", from |-> 0, to |-> 0]
  ELSE [status |-> "ok", from |-> entry.offset, to |-> entry.offset + entry.size]

\* ---- the files of the model ----
\* names "p" and "q", then four bytes of data
PkgArea == <<112, 0, 113, 0, 7, 7, 7, 7>>

\* an entry of a table that ends at `base`: the file table's id or another,
\* a name offset in the name buffer or beyond it, data at the start or in the
\* middle of the area or beyond the file, of no, four or too many bytes
PkgEntries(base) ==
  [entry_id : {FILE_POS, 4096}, name_pos : {0, 2, 9},
   offset : {base, base + 4, base + 100}, size : {0, 4, 100}]

PkgFile(n, es, entry_data_size) ==
  [file_size |-> HEADER_SIZE + n * PKG_ENTRY_SIZE + Len(PkgArea), magic_ok |-> TRUE,
   table_pos |-> HEADER_SIZE, entry_count |-> n, entry_data_size |-> entry_data_size,
   entries |-> es, area |-> PkgArea]

PkgFilesOnDisk ==
  LET Base(n) == HEADER_SIZE + n * PKG_ENTRY_SIZE
      one == [entry_id |-> FILE_POS, name_pos |-> 0, offset |-> Base(1), size |-> 4]
  IN {PkgFile(n, es, d) : n \in {0}, es \in {<<>>}, d \in {4}}
       \cup UNION {{PkgFile(n, es, d) : es \in [1..n -> PkgEntries(Base(n))], d \in {4, 8}}
                     : n \in 1..MaxPkgEntries}
       \cup {[PkgFile(1, <<one>>, 4) EXCEPT !.magic_ok = FALSE],
             [PkgFile(1, <<one>>, 4) EXCEPT !.file_size = 100],
             [PkgFile(1, <<one>>, 4) EXCEPT !.entry_count = 9]}

\* the identifiers get_file is called with: a name, and the hexadecimal ids
PkgIdentifiers == {<<"p">>, <<"q">>, <<"2", "0", "0">>, <<"1", "0", "0", "0">>}

NoPkgFile ==
  [file_size |-> 0, magic_ok |-> FALSE, table_pos |-> 0, entry_count |-> 0,
   entry_data_size |-> 0, entries |-> <<>>, area |-> <<>>]

\* PS4Package::new(filepath)
PackageNew ==
  /\ pkgf_pc = "new"
  /\ pkgf_package' = PS4Package_new(pkgf_file)
  /\ pkgf_pc' = IF PS4Package_new(pkgf_file).status = "ok" THEN "parsed" ELSE "failed"
  /\ UNCHANGED <<pkgf_file, pkgf_identifier, pkgf_entry, pkgf_got>>
  /\ UNCHANGED <<rangeVars, requestVars, builderVars, hostVars, mergeVars, loopVars, sfoVars, rtVars>>

\* pkg.get_file(identifier): locate_file fails, or get_file runs on the
\* entry it found
GetFile ==
  /\ pkgf_pc = "parsed"
  /\ \E identifier \in PkgIdentifiers :
       /\ pkgf_identifier' = identifier
       /\ LET found == locate_file(pkgf_package.file_entries, identifier)
          IN IF found = {}
             THEN /\ pkgf_got' = [status |-> "not found", from |-> 0, to |-> 0]
                  /\ UNCHANGED pkgf_entry
             ELSE \E id \in found :
                    /\ pkgf_entry' = id
                    /\ pkgf_got' = get_file(pkgf_file, pkgf_package.file_entries[id])
  /\ pkgf_pc' = "got"
  /\ UNCHANGED <<pkgf_file, pkgf_package>>
  /\ UNCHANGED <<rangeVars, requestVars, builderVars, hostVars, mergeVars, loopVars, sfoVars, rtVars>>

InitPkgf ==
  /\ pkgf_file \in PkgFilesOnDisk
  /\ pkgf_package = [status |-> "none", file_entries |-> NoEntries]
  /\ pkgf_identifier = <<>>
  /\ pkgf_entry = 0
  /\ pkgf_got = NotRead
  /\ pkgf_pc = "new"

NextPkgf == PackageNew \/ GetFile

(***************************************************************************)
(* Host mode on the task runtime: which task holds a worker thread.        *)
(***************************************************************************)
\* most worker threads of the runtime, connections and pending events
MaxWorkers == 2
MaxConns == 2
MaxRtEvents == 2

Conns == 1..MaxConns

\* the spawned tasks: the watcher task and one task a connection
WatcherTask == [kind |-> "watcher", conn |-> 0]

ConnTask(i) == [kind |-> "conn", conn |-> i]

\* the tasks that hold a worker thread
Busy == {t \in {WatcherTask} \cup {ConnTask(i) : i \in Conns} :
           IF t = WatcherTask THEN rt_watcher \in {"recv", "generate"}
           ELSE rt_conn[t.conn] = "running"}

\* main, on the thread of block_on: task::spawn of the watcher task
RtSpawnWatcher ==
  /\ rt_main = "spawn"
  /\ rt_queue' = Append(rt_queue, WatcherTask)
  /\ rt_watcher' = "queued"
  /\ rt_main' = "accept"
  /\ UNCHANGED <<rt_workers, rt_events, rt_conn>>
  /\ UNCHANGED <<rangeVars, requestVars, builderVars, hostVars, unitVars>>

\* run_server's loop: listener.accept().await returns a connection and
\* tokio::task::spawn queues its task
RtAccept ==
  /\ rt_main = "accept"
  /\ \E i \in Conns :
       /\ rt_conn[i] = "none"
       /\ rt_conn' = [rt_conn EXCEPT ![i] = "queued"]
       /\ rt_queue' = Append(rt_queue, ConnTask(i))
  /\ UNCHANGED <<rt_workers, rt_events, rt_watcher, rt_main>>
  /\ UNCHANGED <<rangeVars, requestVars, builderVars, hostVars, unitVars>>

\* a worker thread that runs no task takes the next task of the run queue;
\* the watcher task runs Watcher::new and enters run_with_generate
RtRun ==
  /\ rt_queue # <<>>
  /\ Cardinality(Busy) < rt_workers
  /\ rt_queue' = Tail(rt_queue)
  /\ IF Head(rt_queue) = WatcherTask
     THEN rt_watcher' = "recv" /\ UNCHANGED rt_conn
     ELSE /\ rt_conn' = [rt_conn EXCEPT ![Head(rt_queue).conn] = "running"]
          /\ UNCHANGED rt_watcher
  /\ UNCHANGED <<rt_workers, rt_events, rt_main>>
  /\ UNCHANGED <<rangeVars, requestVars, builderVars, hostVars, unitVars>>

\* self.receiver.recv() of std::sync::mpsc returns an item: the thread was
\* blocked in the call, the task never returned Pending to the runtime
RtWatcherRecv ==
  /\ rt_watcher = "recv"
  /\ rt_events > 0
  /\ rt_events' = rt_events - 1
  /\ rt_watcher' = "generate"
  /\ UNCHANGED <<rt_workers, rt_queue, rt_conn, rt_main>>
  /\ UNCHANGED <<rangeVars, requestVars, builderVars, hostVars, unitVars>>

\* crate::run_generate(args.clone()).await: the future holds no await of its
\* own and completes on its first poll, on the same worker thread
RtWatcherGenerated ==
  /\ rt_watcher = "generate"
  /\ rt_watcher' = "recv"
  /\ UNCHANGED <<rt_workers, rt_events, rt_queue, rt_conn, rt_main>>
  /\ UNCHANGED <<rangeVars, requestVars, builderVars, hostVars, unitVars>>

\* the connection's task serves the request and ends
RtConnServe(i) ==
  /\ rt_conn[i] = "running"
  /\ rt_conn' = [rt_conn EXCEPT ![i] = "answered"]
  /\ UNCHANGED <<rt_workers, rt_events, rt_queue, rt_watcher, rt_main>>
  /\ UNCHANGED <<rangeVars, requestVars, builderVars, hostVars, unitVars>>

RtServe == \E i \in Conns : RtConnServe(i)

\* the notifier, on its own thread, sends an event
RtNotify ==
  /\ rt_watcher \in {"recv", "generate"}
  /\ rt_events < MaxRtEvents
  /\ rt_events' = rt_events + 1
  /\ UNCHANGED <<rt_workers, rt_queue, rt_watcher, rt_conn, rt_main>>
  /\ UNCHANGED <<rangeVars, requestVars, builderVars, hostVars, unitVars>>

\* after the initial run_generate of main; the runtime of #[tokio::main] has
\* as many worker threads as the machine has cores
InitRt ==
  /\ rt_workers \in 1..MaxWorkers
  /\ rt_queue = <<>>
  /\ rt_events = 0
  /\ rt_watcher = "unspawned"
  /\ rt_conn = [i \in Conns |-> "none"]
  /\ rt_main = "spawn"

NextRt ==
  RtSpawnWatcher \/ RtAccept \/ RtRun \/ RtWatcherRecv \/ RtWatcherGenerated
    \/ RtServe \/ RtNotify

(***************************************************************************)
(* The specifications.  Each runs one part of the program and holds the    *)
(* other parts' variables still.                                           *)
(***************************************************************************)
vars == <<rangeVars, requestVars, builderVars, hostVars, unitVars, rtVars>>

RangeIdle ==
  /\ headers = [present |-> FALSE, value |-> <<>>]
  /\ file_size = 0
  /\ response = NoResponse
  /\ body = <<>>
  /\ reader_stream = [pos |-> 0, left |-> 0]
  /\ serve_pc = "idle"

RequestIdle ==
  /\ path = <<>>
  /\ handler_pc = "idle"

BuilderIdle ==
  /\ pkg_root = <<>>
  /\ external_dir = <<>>
  /\ args = [icons |-> FALSE]
  /\ processed_data = NoResult
  /\ builder_pc = "idle"

HostIdle ==
  /\ main_pc = "idle"
  /\ watcher_pc = "unspawned"
  /\ channel = <<>>
  /\ watching = FALSE
  /\ event = NoEvent
  /\ out_dir = NoFiles
  /\ run = [who \in {"main", "watcher"} |-> IdleRun]
  /\ running = 0
  /\ last_result = [status |-> "none", data |-> NoFiles]
  /\ conn = NoConn
  /\ exit_code = "running"

MergeIdle ==
  /\ merge_base = JNull
  /\ merge_external = JNull
  /\ merge_once = JNull
  /\ merge_twice = JNull
  /\ merge_pc = "idle"

LoopIdle ==
  /\ loop_mode = "run"
  /\ loop_pc = "idle"
  /\ loop_channel = <<>>
  /\ loop_sender = FALSE
  /\ loop_item = "None"
  /\ loop_log = ""
  /\ loop_result = "none"
  /\ loop_sent = 0
  /\ loop_started = 0

SfoIdle ==
  /\ sfo_buffer = NoBuffer
  /\ sfo_result = [status |-> "none", map |-> EmptyMap]
  /\ sfo_pc = "idle"

PkgfIdle ==
  /\ pkgf_file = NoPkgFile
  /\ pkgf_package = [status |-> "none", file_entries |-> NoEntries]
  /\ pkgf_identifier = <<>>
  /\ pkgf_entry = 0
  /\ pkgf_got = NotRead
  /\ pkgf_pc = "idle"

RtIdle ==
  /\ rt_workers = 1
  /\ rt_queue = <<>>
  /\ rt_events = 0
  /\ rt_watcher = "unspawned"
  /\ rt_conn = [i \in Conns |-> "none"]
  /\ rt_main = "idle"

UnitIdle == MergeIdle /\ LoopIdle /\ SfoIdle /\ PkgfIdle /\ RtIdle

\* serve_file on every file size and Range header of the model
InitRangeModel == InitRange /\ RequestIdle /\ BuilderIdle /\ HostIdle /\ UnitIdle

SpecRange == InitRangeModel /\ [][NextRange]_vars

\* handle_request on every request path of the model
InitRequestModel == InitRequest /\ BuilderIdle /\ HostIdle /\ UnitIdle

SpecRequest == InitRequestModel /\ [][NextRequest]_vars

\* handle_packages on every packages root of the model
InitPackagesModel == InitPackages /\ RangeIdle /\ RequestIdle /\ HostIdle /\ UnitIdle

SpecPackages == InitPackagesModel /\ [][HandlePackages]_vars

InitHostModel == InitHost /\ RangeIdle /\ RequestIdle /\ UnitIdle

Next == MainStep \/ WatcherStep \/ ServerStep \/ EnvStep

\* host mode
Spec == InitHostModel /\ [][Next]_vars

\* host mode with packages appearing and disappearing, on a runtime that
\* keeps running every task that can take a step
FairNext == MainStep \/ WatcherStep \/ ServerBind \/ FsCreate \/ FsRemove

FairSpec ==
  /\ InitHostModel
  /\ [][FairNext]_vars
  /\ WF_vars(MainStep)
  /\ WF_vars(WatcherStep)
  /\ WF_vars(ServerBind)

\* merge_json_values on every category and external DATA object of the model
InitMergeModel ==
  /\ InitMerge /\ RangeIdle /\ RequestIdle /\ BuilderIdle /\ HostIdle
  /\ LoopIdle /\ SfoIdle /\ PkgfIdle /\ RtIdle

SpecMerge == InitMergeModel /\ [][NextMerge]_vars

\* both watcher loops on every sequence of items of the model
InitLoopModel ==
  /\ InitLoop /\ RangeIdle /\ RequestIdle /\ HostIdle
  /\ MergeIdle /\ SfoIdle /\ PkgfIdle /\ RtIdle

SpecLoop == InitLoopModel /\ [][NextLoop]_vars

\* the loops on a thread that keeps running: recv() returns when it can, and
\* a rebuild comes to its end
FairLoop ==
  /\ InitLoopModel
  /\ [][NextLoop]_vars
  /\ WF_vars(LoopRecv)
  /\ WF_vars(LoopGenerate)
  /\ WF_vars(LoopClosed)

\* process on every buffer of the model
InitSfoModel ==
  /\ InitSfo /\ RangeIdle /\ RequestIdle /\ BuilderIdle /\ HostIdle
  /\ MergeIdle /\ LoopIdle /\ PkgfIdle /\ RtIdle

SpecSfo == InitSfoModel /\ [][SfoProcessCall]_vars

\* PS4Package::new and get_file on every PKG file of the model
InitPkgfModel ==
  /\ InitPkgf /\ RangeIdle /\ RequestIdle /\ BuilderIdle /\ HostIdle
  /\ MergeIdle /\ LoopIdle /\ SfoIdle /\ RtIdle

SpecPkgf == InitPkgfModel /\ [][NextPkgf]_vars

\* host mode's tasks on a runtime that keeps running every task that is on
\* a thread and hands every free thread the next ready task
InitRtModel ==
  /\ InitRt /\ RangeIdle /\ RequestIdle /\ BuilderIdle /\ HostIdle
  /\ MergeIdle /\ LoopIdle /\ SfoIdle /\ PkgfIdle

SpecRuntime ==
  /\ InitRtModel
  /\ [][NextRt]_vars
  /\ WF_vars(RtSpawnWatcher)
  /\ WF_vars(RtRun)
  /\ WF_vars(RtWatcherRecv)
  /\ WF_vars(RtWatcherGenerated)
  /\ \A i \in Conns : WF_vars(RtConnServe(i))

(***************************************************************************)
(* Claims about the ranged file server.                                    *)
(***************************************************************************)
ServeEnded == serve_pc \in {"done", "panicked"}

\* C2: for a file of size N and the header `bytes=a-b` with 0 <= a <= b < N,
\* serve_file answers 206 with Content-Length b-a+1 and Content-Range
\* `bytes a-b/N`, and the finished body stream has yielded exactly the file's
\* bytes a..b, however the reader split the data into chunks.
C2_RangeBodyExact ==
  \A a \in 0..MaxFileSize, b \in 0..MaxFileSize :
    (/\ ServeEnded
     /\ a <= b /\ b < file_size
     /\ headers = [present |-> TRUE, value |-> RangeHeader(a, b)])
    => /\ response.status = 206
       /\ response.content_length = ToDecimal(b - a + 1)
       /\ response.content_range = ContentRange(a, b, file_size)
       /\ body = Region(a, b)

\* the head of the 206 answer alone is as C2 states it
C2_RangeHeadExact ==
  \A a \in 0..MaxFileSize, b \in 0..MaxFileSize :
    (/\ ServeEnded
     /\ a <= b /\ b < file_size
     /\ headers = [present |-> TRUE, value |-> RangeHeader(a, b)])
    => /\ response.status = 206
       /\ response.content_length = ToDecimal(b - a + 1)
       /\ response.content_range = ContentRange(a, b, file_size)

\* the Range header has no `bytes=` prefix
NoBytesPrefix(h) == ~StartsWith(h, BytesPrefix)

\* `bytes=` is followed by a start that holds a letter or a comma
NonNumericStart(h) ==
  /\ StartsWith(h, BytesPrefix)
  /\ \E i \in (Len(BytesPrefix) + 1)..Len(h) :
       /\ h[i] = "-"
       /\ \A j \in (Len(BytesPrefix) + 1)..(i - 1) : h[j] # "-"
       /\ \E j \in (Len(BytesPrefix) + 1)..(i - 1) : h[j] \in {"x", ","}

SuffixForm(h) == \E k \in RangeNumbers : h = SuffixRangeHeader(k)

MultiRange(h) ==
  \E a \in 0..1, b \in 0..MaxFileSize, c \in 0..1, d \in 0..MaxFileSize :
    h = MultiRangeHeader(a, b, c, d)

OutOfBounds(h, size) ==
  \E a \in RangeNumbers, b \in RangeNumbers :
    h = RangeHeader(a, b) /\ (a > b \/ b >= size)

InvalidRange(h, size) ==
  \/ NoBytesPrefix(h)
  \/ NonNumericStart(h)
  \/ SuffixForm(h)
  \/ MultiRange(h)
  \/ OutOfBounds(h, size)

\* C3: a Range header that is syntactically invalid (no `bytes=` prefix,
\* non-numeric start, suffix form, multi-range) or out of bounds (a > b or
\* b >= N) is answered 200 with Content-Length N and the whole file; the
\* header `bytes=a-` with a < N is answered 206 with the N-a bytes from a on.
C3_LenientRange ==
  (ServeEnded /\ headers.present)
  => /\ InvalidRange(headers.value, file_size)
        => /\ response.status = 200
           /\ response.content_length = ToDecimal(file_size)
           /\ body = Region(0, file_size - 1)
     /\ \A a \in 0..(file_size - 1) :
          headers.value = OpenRangeHeader(a)
          => /\ response.status = 206
             /\ response.content_length = ToDecimal(file_size - a)
             /\ response.content_range = ContentRange(a, file_size - 1, file_size)
             /\ body = Region(a, file_size - 1)

\* `bytes=2-2` on a file of two bytes fell through to the whole file
C3_Witness ==
  /\ serve_pc = "done"
  /\ file_size = 2
  /\ headers = [present |-> TRUE, value |-> RangeHeader(2, 2)]
  /\ response.status = 200
  /\ body = Region(0, 1)

(***************************************************************************)
(* Claims about the request handler.                                       *)
(***************************************************************************)
\* the decoded request path names an existing directory under a mapped name
ResolvesToDirectory(p) ==
  LET sp == split_path(trim_start_slashes(percent_decode(p)))
  IN /\ sp.base \in DOMAIN Directories
     /\ JoinPath(Directories[sp.base], sp.subpath).ok
     /\ JoinPath(Directories[sp.base], sp.subpath).node \in FsDirs

\* C4: a request whose decoded path resolves to an existing directory under a
\* mapped name and whose path does not end with `/` is answered with a
\* permanent redirect (301 or 308) to the same path with a trailing slash,
\* never with a 200 listing.
C4_DirectoryRedirect ==
  (/\ handler_pc = "done"
   /\ path # <<>>
   /\ path[Len(path)] # "/"
   /\ ResolvesToDirectory(path))
  => /\ response.status \in {301, 308}
     /\ response.location = path \o <<"/">>

(***************************************************************************)
(* Claims about the catalog builder.                                       *)
(***************************************************************************)
\* the catalog key of the i-th enumerated file
PkgUrl(i) == BaseUrl \o <<"/">> \o PkgUrlRoot \o <<"/">> \o utf8_percent_encode(RelPaths[i])

\* the category a parseable package belongs to
PkgCategory(f) ==
  CategoryOf(IF "CATEGORY" \in DOMAIN f.sfo_data THEN f.sfo_data["CATEGORY"] ELSE "gd")

\* the i-th file is in the catalog that handle_packages returned
Indexed(i) ==
  /\ processed_data.status = "ok"
  /\ PkgUrl(i) \in DOMAIN processed_data.data[PkgCategory(pkg_root[i])]

\* C5: a failure that concerns one PKG (stat failure, bad magic or short
\* file, missing name-table entry, missing or invalid param.sfo, icon
\* directory or icon0.png failure) never aborts the batch: handle_packages
\* returns a catalog, and every parseable PKG enumerated before or after the
\* failing one is in it.
C5_FailureLocalToPkg ==
  (/\ builder_pc = "done"
   /\ \E i \in 1..Len(pkg_root) : pkg_root[i] \in FailingPkgs
   /\ \E i \in 1..Len(pkg_root) : pkg_root[i] \in GoodPkgs)
  => /\ processed_data.status = "ok"
     /\ \A i \in 1..Len(pkg_root) : pkg_root[i] \in GoodPkgs => Indexed(i)

\* the same, for the failures that handle_packages logs and skips
C5_SkippedFailuresAreLocal ==
  (/\ builder_pc = "done"
   /\ \A i \in 1..Len(pkg_root) : pkg_root[i] \notin {StatFailPkg, IconDirFailPkg})
  => /\ processed_data.status = "ok"
     /\ \A i \in 1..Len(pkg_root) : pkg_root[i] \in GoodPkgs \cup {NoIconPkg} => Indexed(i)

(***************************************************************************)
(* C1: a reader of a category file that run_generate rewrites.             *)
(***************************************************************************)
\* C1: a request served while run_generate rewrites the same file reads the
\* complete old or the complete new text, never an empty or torn file.
\* Violated: File::create truncates the file in place and write_all fills it
\* in a later step, so a read between the two gets an empty file.
C1_ReaderNeverTorn == conn.pc = "done" => conn.observed = "complete"

(***************************************************************************)
(* C6: rebuilds do not overlap.                                            *)
(***************************************************************************)
\* C6: at most one run_generate executes at any time, and the watcher task
\* and the server start only after the initial run_generate has returned.
C6_RebuildsSerialized ==
  /\ running <= 1
  /\ (watcher_pc # "unspawned" \/ main_pc \in {"bind", "accept"})
       => /\ run["main"] = IdleRun
          /\ last_result.status # "none"

\* a rebuild started by an event is running while a further event waits
C6_Witness ==
  /\ watcher_pc = "generate"
  /\ run["watcher"].pc = "write"
  /\ running = 1
  /\ channel # <<>>

(***************************************************************************)
(* C7: the event kinds that start a rebuild.                               *)
(***************************************************************************)
\* the watcher loop takes the first item of the channel
Received == channel # <<>> /\ channel' = Tail(channel)

\* C7: a received item starts a rebuild exactly when it is an event of kind
\* Create, Modify or Remove; any other item starts none and leaves the
\* output directory as it is; and the watcher starts no rebuild otherwise.
C7_TriggerKinds ==
  [][/\ Received =>
          IF Head(channel).kind \in {"Create", "Modify", "Remove"}
          THEN running' = running + 1 /\ watcher_pc' = "generate"
          ELSE running' = running /\ run' = run /\ out_dir' = out_dir
               /\ watcher_pc' = watcher_pc
     /\ (running' > running /\ main_pc # "start") =>
          Received /\ Head(channel).kind \in {"Create", "Modify", "Remove"}]_vars

\* the rebuild that a Modify event started has just begun
C7_Witness ==
  /\ watcher_pc = "generate"
  /\ event.kind = "Modify"
  /\ run["watcher"].pc = "handle_packages"
  /\ running = 1

(***************************************************************************)
(* C8: a new package reaches the catalog on disk.                          *)
(***************************************************************************)
\* the games file on disk lists the package of the first slot
Listed ==
  /\ "games" \in DOMAIN out_dir
  /\ PkgUrl(1) \in DOMAIN out_dir["games"].entries

\* a parseable package is under the root and a Create event is delivered
Dropped ==
  /\ exit_code = "running"
  /\ pkg_root[1] = GoodPkg("gd")
  /\ channel # <<>>
  /\ Head(channel).kind = "Create"

\* C8: once a parseable package is under the watched root and a Create event
\* is in the channel, the games file on disk eventually lists the package
\* (unless the package is removed again or the process has ended).
\* Violated because of C5: with a name under the root that cannot be stat'ed,
\* every rebuild returns the error of fs::metadata before it writes a file.
C8_NewPackageListed ==
  Dropped ~> (Listed \/ pkg_root[1] = AbsentFile \/ exit_code # "running")

\* the same, while every name under the root can be stat'ed
C8_ListedWhenAllStat ==
  Dropped ~> (Listed \/ pkg_root[1] = AbsentFile \/ exit_code # "running"
              \/ pkg_root[HostSlots + 1] # AbsentFile)

(***************************************************************************)
(* C9: a fatal failure ends the process.                                   *)
(***************************************************************************)
\* C9: when the watcher task or the server has failed, the process
\* eventually ends with a non-zero status.
\* Violated: main awaits the watcher's JoinHandle only after run_server has
\* returned, and run_server returns only on its own errors.
C9_FatalFailureExits ==
  (watcher_pc = "failed" \/ main_pc = "error") ~> exit_code = "nonzero"

\* the server's half of it
C9_ServerFailureExits == main_pc = "error" => exit_code = "nonzero"

(***************************************************************************)
(* C10: what the output directory holds after a rebuild.                   *)
(***************************************************************************)
\* C10: when no rebuild runs and the latest one succeeded, every file of the
\* output directory holds exactly the data of that rebuild.
\* Violated: run_generate writes the categories it computed and removes no
\* file, so the file of a category that is gone keeps its old entries.
C10_OnlyLatestOnDisk ==
  (running = 0 /\ last_result.status = "ok")
    => \A c \in DOMAIN out_dir :
         /\ c \in DOMAIN last_result.data
         /\ out_dir[c] = CompleteFile(last_result.data[c])

\* what does hold: the files of the categories the latest rebuild computed
C10_ComputedCategoriesCurrent ==
  (running = 0 /\ last_result.status = "ok")
    => \A c \in DOMAIN last_result.data :
         /\ c \in DOMAIN out_dir
         /\ out_dir[c] = CompleteFile(last_result.data[c])

(***************************************************************************)
(* C11: the category of a package's entry.                                 *)
(***************************************************************************)
\* the file is a package that PS4Package::new and SFOProcessor::process accept
Parses(f) ==
  /\ f.ext = "pkg"
  /\ f.pkg_bytes >= 416 /\ f.magic_ok /\ f.file_table
  /\ f.sfo = "ok"

\* the category the CATEGORY value of a package's SFO stands for
ExpectedCategory(f) ==
  IF "CATEGORY" \notin DOMAIN f.sfo_data THEN "games"
  ELSE CASE f.sfo_data["CATEGORY"] = "gd" -> "games"
         [] f.sfo_data["CATEGORY"] = "gp" -> "updates"
         [] f.sfo_data["CATEGORY"] = "ac" -> "DLC"
         [] f.sfo_data["CATEGORY"] = "gde" -> "homebrew"
         [] OTHER -> "games"

\* the URL key of package i is in the category of its CATEGORY value and in
\* no other
InExactlyItsCategory(i) ==
  \A c \in DOMAIN processed_data.data :
    (PkgUrl(i) \in DOMAIN processed_data.data[c]) <=> (c = ExpectedCategory(pkg_root[i]))

\* C11: without an external directory, the catalog that handle_packages
\* returns holds the URL key of every package that parses in the category
\* its CATEGORY value stands for (games for any other or a missing value)
\* and in no other category.
\* Violated: two names that differ only in " " against "%20" get the same
\* URL key (utf8_percent_encode leaves "%" as it is, see C17), and the key
\* then is in the category of each of the two packages.
C11_ExactlyOneCategory ==
  (builder_pc = "done" /\ external_dir = <<>> /\ processed_data.status = "ok")
    => \A i \in 1..Len(pkg_root) : Parses(pkg_root[i]) => InExactlyItsCategory(i)

\* the URL keys of the packages that parse are pairwise different
DistinctKeys ==
  \A i, j \in 1..Len(pkg_root) :
    (Parses(pkg_root[i]) /\ Parses(pkg_root[j]) /\ i # j) => PkgUrl(i) # PkgUrl(j)

\* what does hold: when the keys are different, each package that parses is
\* in exactly its category
C11_OneCategoryWhenKeysDistinct ==
  (builder_pc = "done" /\ external_dir = <<>> /\ processed_data.status = "ok"
     /\ DistinctKeys)
    => \A i \in 1..Len(pkg_root) : Parses(pkg_root[i]) => InExactlyItsCategory(i)

(***************************************************************************)
(* C12: the shape of a catalog entry.                                      *)
(***************************************************************************)
EntryKeys ==
  {"title_id", "region", "name", "version", "release", "size", "min_fw", "cover_url"}

\* the entry has the eight keys, a number under size that is the length of a
\* package of that URL, and a string or null under every other key
WellShaped(u, entry) ==
  /\ DOMAIN entry = EntryKeys
  /\ entry["size"].t = "number"
  /\ entry["size"].v >= 0
  /\ \E i \in 1..Len(pkg_root) :
       Parses(pkg_root[i]) /\ PkgUrl(i) = u /\ entry["size"].v = pkg_root[i].pkg_bytes
  /\ \A k \in EntryKeys \ {"size"} : entry[k].t \in {"string", "null"}

\* C12: every entry of the catalog that handle_packages returns has exactly
\* the keys title_id, region, name, version, release, size, min_fw and
\* cover_url, with the length of its package under size and a string or null
\* elsewhere, also after the external files are merged.
\* Violated: the external loop inserts the DATA of an external file as it
\* is, so a URL that only the external file names becomes an entry with just
\* the fields the file gives.
C12_EntryShape ==
  (builder_pc = "done" /\ processed_data.status = "ok")
    => \A c \in DOMAIN processed_data.data :
         \A u \in DOMAIN processed_data.data[c] :
           WellShaped(u, processed_data.data[c][u])

\* what does hold: the entries built from packages, with no external directory
C12_EntryShapeWithoutExternal ==
  (builder_pc = "done" /\ processed_data.status = "ok" /\ external_dir = <<>>)
    => \A c \in DOMAIN processed_data.data :
         \A u \in DOMAIN processed_data.data[c] :
           WellShaped(u, processed_data.data[c][u])

(***************************************************************************)
(* C13: the external merge is idempotent.                                  *)
(***************************************************************************)
\* C13: merging the same external DATA object into a category a second time
\* changes nothing: merge(merge(C, E), E) = merge(C, E).
C13_MergeIdempotent == merge_pc = "done" => merge_twice = merge_once

\* both merges are done, on a category and an external object that share a
\* URL whose entries share a field with different values, so that the first
\* merge changed the category
C13_Witness ==
  /\ merge_pc = "done"
  /\ merge_once # merge_base
  /\ \E u \in DOMAIN merge_base.v \cap DOMAIN merge_external.v :
       /\ merge_external.v[u].t = "object"
       /\ \E k \in DOMAIN merge_base.v[u].v \cap DOMAIN merge_external.v[u].v :
            merge_base.v[u].v[k] # merge_external.v[u].v[k]

(***************************************************************************)
(* C14: what an external file changes.                                     *)
(***************************************************************************)
\* the catalog of the packages alone, before any external file is merged
BeforeExternal == PackageLoop(pkg_root, 1, args.icons, InitialCatalog).data

\* one readable external file with a DATA object, for a category the catalog has
MergesIntoCategory ==
  /\ builder_pc = "done"
  /\ processed_data.status = "ok"
  /\ Len(external_dir) = 1
  /\ external_dir[1].ext = "json" /\ external_dir[1].readable /\ external_dir[1].has_data
  /\ external_dir[1].category \in DOMAIN BeforeExternal

\* C14: merging an external file into a category of the catalog leaves every
\* other category as it was, leaves the entries whose URL the file does not
\* name as they were, adds the URLs only the file names, and in an entry
\* whose URL the file names overwrites the fields the file gives and keeps
\* every other field.
C14_MergeFrame ==
  MergesIntoCategory =>
    LET e == external_dir[1]
        before == BeforeExternal
        after == processed_data.data
    IN /\ DOMAIN after = DOMAIN before
       /\ \A c \in DOMAIN before \ {e.category} : after[c] = before[c]
       /\ DOMAIN after[e.category] = DOMAIN before[e.category] \cup DOMAIN e.data
       /\ \A u \in DOMAIN before[e.category] \ DOMAIN e.data :
            after[e.category][u] = before[e.category][u]
       /\ \A u \in DOMAIN e.data \ DOMAIN before[e.category] :
            after[e.category][u] = e.data[u].v
       /\ \A u \in DOMAIN e.data \cap DOMAIN before[e.category] :
            LET old == before[e.category][u]
                ext == e.data[u].v
                new == after[e.category][u]
            IN /\ DOMAIN new = DOMAIN old \cup DOMAIN ext
               /\ \A k \in DOMAIN old \ DOMAIN ext : new[k] = old[k]
               /\ \A k \in DOMAIN ext : new[k] = ext[k]

\* an external file was merged that names the URL of an entry of the catalog,
\* overwrites one of its fields and leaves others, beside an entry it does
\* not name
C14_Witness ==
  /\ MergesIntoCategory
  /\ LET e == external_dir[1]
         before == BeforeExternal[e.category]
     IN /\ \E u \in DOMAIN e.data \cap DOMAIN before :
             /\ \E k \in DOMAIN e.data[u].v \cap DOMAIN before[u] :
                  e.data[u].v[k] # before[u][k]
             /\ DOMAIN before[u] \ DOMAIN e.data[u].v # {}
        /\ DOMAIN before \ DOMAIN e.data # {}
        /\ DOMAIN e.data \ DOMAIN before # {}

(***************************************************************************)
(* C15: the status of a failed request.                                    *)
(***************************************************************************)
\* the request path names a mapped directory and a node that exists under it
Resolves ==
  /\ path # <<>> /\ path # <<"/">>
  /\ LET sp == split_path(trim_start_slashes(percent_decode(path)))
     IN /\ sp.base \in DOMAIN Directories
        /\ JoinPath(Directories[sp.base], sp.subpath).ok

\* C15: a request is answered 404 exactly when its base is not mapped or its
\* path resolves to nothing; a path that exists is answered 200 or 206, or
\* 500 when its file cannot be opened or its directory cannot be read.
\* Violated: serve_file and serve_directory log "500" and return None, which
\* handle_request answers with build_not_found_response; no response of
\* status 500 is ever built.
C15_StatusClasses ==
  (handler_pc = "done" /\ serve_pc \in {"done", "streaming"}
     /\ path # <<>> /\ path # <<"/">>)
    => (response.status = 404 <=> ~Resolves)

\* what does hold: a request whose base is not mapped or whose path resolves
\* to nothing is answered 404
C15_UnknownIs404 ==
  (handler_pc = "done" /\ path # <<>> /\ path # <<"/">> /\ ~Resolves)
    => (serve_pc = "done" /\ response.status = 404)

\* no response has status 500
C15_Never500 == response.status # 500

(***************************************************************************)
(* C16: the order of the anchors in a listing.                             *)
(***************************************************************************)
\* the characters of the model's names, lower case, in code-point order
Alphabet == <<" ", "%", ".", "0", "1", "2", "6", "a", "b", "d", "e", "g", "h", "j", "k",
              "n", "p", "s">>

CharRank(c) == CHOOSE i \in 1..Len(Alphabet) : Alphabet[i] = c

\* a <= b in the case-insensitive order of names
RECURSIVE NameLeq(_, _)
NameLeq(a, b) ==
  IF a = <<>> THEN TRUE
  ELSE IF b = <<>> THEN FALSE
  ELSE IF a[1] = b[1] THEN NameLeq(Tail(a), Tail(b))
  ELSE CharRank(a[1]) < CharRank(b[1])

IsListing ==
  handler_pc = "done" /\ response.status = 200 /\ response.content_type = "text/html"

\* C16: the anchors of the index and of every directory listing are in
\* case-insensitive sorted order, whatever order the mapping or the
\* filesystem returns them in.
\* Violated: directory_index iterates HashMap::keys and directory_listing
\* the entries in read_dir's order; nothing sorts them.
C16_ListingSorted ==
  IsListing =>
    \A i, j \in 1..Len(response.links) :
      i < j => NameLeq(response.links[i].text, response.links[j].text)

\* what does hold: a listing has one anchor for every mapped name (index) or
\* every entry of the directory (listing), and nothing else
C16_ListingComplete ==
  IsListing =>
    LET texts == {response.links[i].text : i \in 1..Len(response.links)}
    IN /\ Cardinality(texts) = Len(response.links)
       /\ IF path = <<"/">> \/ path = <<>>
          THEN texts = DOMAIN Directories
          ELSE LET sp == split_path(trim_start_slashes(percent_decode(path)))
               IN texts = Children(JoinPath(Directories[sp.base], sp.subpath).node)

(***************************************************************************)
(* C17: the catalog's URL of a package, requested from the server.         *)
(***************************************************************************)
\* the packages root as the server maps it: --packages p:<root> on both sides
PackagesRoot == Directories[PkgUrlRoot]

RECURSIVE JoinNames(_)
JoinNames(names) ==
  IF Len(names) = 1 THEN names[1]
  ELSE names[1] \o <<"/">> \o JoinNames(Tail(names))

\* the files under the packages root, and the path of one relative to it
FilesUnderRoot ==
  {f \in FsFiles : Len(f) > Len(PackagesRoot)
                     /\ SubSeq(f, 1, Len(PackagesRoot)) = PackagesRoot}

RelPathOf(f) == JoinNames(SubSeq(f, Len(PackagesRoot) + 1, Len(f)))

HasChar(s, c) == \E i \in 1..Len(s) : s[i] = c

\* the path of the URL handle_packages gives the package at rel
UrlPath(rel) == <<"/">> \o PkgUrlRoot \o <<"/">> \o utf8_percent_encode(rel)

\* the node handle_request resolves a request path to
Resolved(request) ==
  LET sp == split_path(trim_start_slashes(percent_decode(request)))
  IN IF sp.base \in DOMAIN Directories
     THEN JoinPath(Directories[sp.base], sp.subpath)
     ELSE [ok |-> FALSE, node |-> <<>>]

\* C17: the URL path of a package whose relative path has a blank writes
\* every blank as %20, and a request for it resolves to that package file.
\* Violated: CONTROLS_WITH_SPACE does not hold '%', so a name with a blank
\* and the characters %61 is written g%20%61, which the server decodes to
\* "g a".
C17_UrlRoundTrip ==
  \A f \in FilesUnderRoot :
    (handler_pc = "done" /\ HasChar(RelPathOf(f), " ") /\ path = UrlPath(RelPathOf(f)))
      => /\ ~HasChar(path, " ")
         /\ Resolved(path) = [ok |-> TRUE, node |-> f]

\* what does hold: the round trip for relative paths without '%'
C17_RoundTripWithoutPercent ==
  \A f \in FilesUnderRoot :
    (handler_pc = "done" /\ HasChar(RelPathOf(f), " ") /\ ~HasChar(RelPathOf(f), "%")
       /\ path = UrlPath(RelPathOf(f)))
      => /\ ~HasChar(path, " ")
         /\ Resolved(path) = [ok |-> TRUE, node |-> f]

\* what does hold: a listing shows every name as read_dir returned it
C17_ListingShowsNames ==
  (IsListing /\ path = <<"/">> \o PkgUrlRoot \o <<"/">>)
    => \E i \in 1..Len(response.links) : response.links[i].text = Name_gh

(***************************************************************************)
(* C18: what ends a watcher loop.                                          *)
(***************************************************************************)
LoopRunning == loop_pc \in {"recv", "generate"}

\* the step receives an Err item
ReceivesError ==
  loop_pc = "recv" /\ Len(loop_channel') < Len(loop_channel) /\ Head(loop_channel) = "Error"

\* the step is the end of a rebuild that did not succeed
RebuildFails ==
  /\ loop_pc = "generate" /\ loop_pc' # "generate"
  /\ loop_log' # "Regenerated JSON files due to filesystem change"

\* the step ends the loop
LoopEnds == LoopRunning /\ ~LoopRunning'

ChannelClosed == loop_channel = <<>> /\ ~loop_sender

\* C18: in both loops an error item and a failed rebuild are logged and the
\* loop receives again; the loop ends only on a closed channel, and returns.
\* Violated: a rebuild that panics (handle_packages unwraps as_object() on
\* an external value that is no object) ends run_with_generate while the
\* channel is open, with nothing logged and nothing returned.
C18_LoopEndsOnlyOnClose ==
  [][/\ ReceivesError => (loop_pc' = "recv" /\ loop_log' = "Watcher error")
     /\ RebuildFails => (loop_pc' = "recv" /\ loop_log' = "Failed to regenerate JSON files")
     /\ LoopEnds => (ChannelClosed /\ loop_pc' = "returned" /\ loop_result' = "Ok")]_vars

\* what does hold: an error item is logged and the loop receives again
C18_ErrorItemContinues ==
  [][ReceivesError => (loop_pc' = "recv" /\ loop_log' = "Watcher error")]_vars

\* what does hold: a rebuild that returns Err is logged and the loop
\* receives again
C18_ErrRebuildContinues ==
  [][(loop_pc = "generate" /\ loop_pc' # "generate"
        /\ handle_packages(pkg_root, args.icons, external_dir).status = "err")
       => (loop_pc' = "recv" /\ loop_log' = "Failed to regenerate JSON files")]_vars

\* what does hold: Watcher::run ends only on a closed channel, and both loops
\* return Ok(()) only then
C18_RunEndsOnlyOnClose ==
  /\ (loop_mode = "run" /\ ~LoopRunning) => loop_pc = "returned"
  /\ loop_pc = "returned"
       => (ChannelClosed /\ loop_result = "Ok" /\ loop_log = "Watcher channel closed")

(***************************************************************************)
(* C19: process and the entries of a buffer.                               *)
(***************************************************************************)
\* the buffer passes the magic, header-size and entry-table-size checks
PassesChecks(b) ==
  /\ b.magic_ok
  /\ BufferLen(b) >= SFO_HEADER_SIZE
  /\ BufferLen(b) >= SFO_HEADER_SIZE + b.entry_count * ENTRY_SIZE

\* the key offset and the data slice of entry i are in range
EntryInRange(b, i) ==
  /\ b.key_table_start + b.entries[i].key_pos < BufferLen(b)
  /\ b.data_table_start + b.entries[i].data_pos + b.entries[i].data_size <= BufferLen(b)

EntryKey(b, i) == extract_string(b, b.key_table_start + b.entries[i].key_pos)

EntryRaw(b, i) ==
  Slice(b, b.data_table_start + b.entries[i].data_pos,
        b.data_table_start + b.entries[i].data_pos + b.entries[i].data_size)

\* entry i is the last entry in range with its key
LastOfKey(b, i) ==
  /\ EntryInRange(b, i)
  /\ \A j \in (i + 1)..b.entry_count :
       EntryInRange(b, j) => EntryKey(b, j) # EntryKey(b, i)

\* the map holds the keys of the entries in range, each with the decoded
\* value of the last entry of that key
DecodesEntries(b, map) ==
  /\ DOMAIN map = {EntryKey(b, i) : i \in {j \in 1..b.entry_count : EntryInRange(b, j)}}
  /\ \A i \in 1..b.entry_count :
       LastOfKey(b, i) =>
         LET e == b.entries[i]
             value == map[EntryKey(b, i)]
         IN /\ e.data_type = FMT_UTF8 => value = TrimEndNul(EntryRaw(b, i))
            /\ (e.data_type = FMT_INT32 /\ e.data_size = 4)
                 => value = ToDecimal(U32FromLe(EntryRaw(b, i)))
            /\ e.data_type \notin {FMT_UTF8, FMT_INT32} => value = HexEncode(EntryRaw(b, i))

\* an entry in range of type 0x0404 whose data is longer than four bytes
WideInteger(b) ==
  \E i \in 1..b.entry_count :
    EntryInRange(b, i) /\ b.entries[i].data_type = FMT_INT32 /\ b.entries[i].data_size > 4

\* C19: for a buffer that passes the three checks, process returns a map
\* whatever its entries are: entries out of range are skipped, the others
\* decoded, and of two entries with one key the later one's value is kept.
\* Violated: for a 0x0404 entry with more than four bytes of data,
\* raw_value.try_into()? returns the conversion's Err from process.
C19_EntryFailureIsLocal ==
  (sfo_pc = "done" /\ PassesChecks(sfo_buffer))
    => /\ sfo_result.status = "ok"
       /\ DecodesEntries(sfo_buffer, sfo_result.map)

\* what does hold: process fails on a checked buffer exactly when an entry in
\* range is a 0x0404 entry with more than four bytes, and decodes as stated
\* otherwise
C19_FailsOnlyOnWideInteger ==
  (sfo_pc = "done" /\ PassesChecks(sfo_buffer))
    => IF WideInteger(sfo_buffer) THEN sfo_result.status = "err"
       ELSE /\ sfo_result.status = "ok"
            /\ DecodesEntries(sfo_buffer, sfo_result.map)

\* what does hold: a buffer that fails a check gives Err
C19_ChecksReject ==
  (sfo_pc = "done" /\ ~PassesChecks(sfo_buffer)) => sfo_result.status = "err"

(***************************************************************************)
(* C20: the entries of a parsed package.                                   *)
(***************************************************************************)
Parsed == pkgf_pc \in {"parsed", "got"}

EntriesWithinFile ==
  \A id \in DOMAIN pkgf_package.file_entries :
    pkgf_package.file_entries[id].offset + pkgf_package.file_entries[id].size
      <= pkgf_file.file_size

NamesWithinBuffer ==
  \A id \in DOMAIN pkgf_package.file_entries :
    pkgf_package.file_entries[id].name # <<>>
      => pkgf_package.file_entries[id].name_pos < pkgf_file.entry_data_size

\* get_file read nothing beyond the end of the file, and failed without a
\* read on an entry that ends beyond it
GetFileWithinFile ==
  pkgf_pc = "got" =>
    /\ pkgf_got.to <= pkgf_file.file_size
    /\ pkgf_got.status # "not found" =>
         LET entry == pkgf_package.file_entries[pkgf_entry]
         IN IF entry.offset + entry.size > pkgf_file.file_size
            THEN pkgf_got = [status |-> "err", from |-> 0, to |-> 0]
            ELSE pkgf_got = [status |-> "ok", from |-> entry.offset,
                             to |-> entry.offset + entry.size]

\* C20: every entry of a package that new returned lies within the file
\* (offset + size <= file size) and has a name only if its name_pos is
\* inside the name buffer; get_file reads nothing beyond the file.
\* Violated: parse_files stores every entry of the table as it is; only the
\* file table entry's offset is compared with the file size.
C20_EntriesWithinFile ==
  Parsed => (EntriesWithinFile /\ NamesWithinBuffer /\ GetFileWithinFile)

\* what does hold: names come from inside the name buffer
C20_NamesWithinBuffer == Parsed => NamesWithinBuffer

\* what does hold: get_file compares offset + size with the file size
\* itself, before it reads
C20_GetFileWithinFile == Parsed => GetFileWithinFile

\* what does hold: the name buffer of a parsed package lies within the file
C20_NameBufferWithinFile ==
  Parsed => pkgf_package.file_entries[FILE_POS].offset + pkgf_file.entry_data_size
              <= pkgf_file.file_size

(***************************************************************************)
(* C21: the server's tasks while the watcher task waits or rebuilds.       *)
(***************************************************************************)
\* C21: every accepted connection is eventually answered, whatever the
\* number of worker threads, one included.
\* Violated: recv() of std::sync::mpsc blocks the thread it is called on and
\* run_generate has no await; the watcher task, once on a worker thread,
\* keeps it, and with one worker thread no connection's task is ever run.
C21_AcceptedIsAnswered ==
  \A i \in Conns : (rt_conn[i] = "queued") ~> (rt_conn[i] = "answered")

\* what does hold: with a second worker thread every accepted connection is
\* answered
C21_AnsweredWithSecondWorker ==
  \A i \in Conns : (rt_workers >= 2 /\ rt_conn[i] = "queued") ~> (rt_conn[i] = "answered")

\* what does hold: the watcher task never gives its worker thread back
C21_WatcherKeepsWorker ==
  [][(WatcherTask \in Busy) => (WatcherTask \in Busy)']_vars

(***************************************************************************)
(* C22: what a request can reach.                                          *)
(***************************************************************************)
\* the handler found the path and went on to serve it
Served ==
  /\ handler_pc = "done"
  /\ Resolved(path).ok
  /\ ~(serve_pc = "done" /\ response.status = 404)

\* node is dir or lies below it
Inside(node, dir) == Len(node) >= Len(dir) /\ SubSeq(node, 1, Len(dir)) = dir

DecodedSubpath == split_path(trim_start_slashes(percent_decode(path))).subpath

MappedDir == Directories[split_path(trim_start_slashes(percent_decode(path))).base]

\* C22: the file or directory a request is served from lies inside the
\* directory mapped to the request's base name.
\* Violated: try_serve_path joins the decoded subpath to the mapped
\* directory and opens the result; `..` segments, plain or sent as %2e%2E,
\* and a subpath that begins with `/` lead out of it.
C22_PathConfined == Served => Inside(Resolved(path).node, MappedDir)

\* what does hold: a request without `..` segments whose subpath does not
\* begin with `/` is served from inside the mapped directory
C22_ConfinedWithoutDotDot ==
  (Served /\ DecodedSubpath # <<>> /\ DecodedSubpath[1] # "/"
     /\ \A i \in 1..Len(Components(DecodedSubpath)) :
          Components(DecodedSubpath)[i] # <<".", ".">>)
    => Inside(Resolved(path).node, MappedDir)

\* the three ways out, each violated: plain, percent-encoded, absolute
C22_NoPlainDotDot ==
  (Served /\ path = <<"/", "p", "/", ".", ".", "/", "e">>)
    => Inside(Resolved(path).node, MappedDir)

C22_NoEncodedDotDot ==
  (Served /\ path = <<"/", "p", "/", "%", "2", "e", "%", "2", "E", "/", "e">>)
    => Inside(Resolved(path).node, MappedDir)

C22_NoAbsoluteSubpath ==
  (Served /\ path = <<"/", "p", "/", "/", "e">>)
    => Inside(Resolved(path).node, MappedDir)

(***************************************************************************)
(* C23: the arithmetic of parse_range.                                     *)
(***************************************************************************)
\* C23: no request makes parse_range overflow: every request is answered,
\* and `bytes=0-` on an empty file is answered 200 with an empty body.
\* Violated: for `bytes=a-` parse_range computes file_size - 1 before any
\* comparison; on an empty file the u64 subtraction overflows, which aborts
\* the request's task in a build with overflow checks and wraps to u64::MAX
\* in a build without.
C23_NoOverflow ==
  (ServeEnded /\ headers.present)
    => /\ serve_pc = "done"
       /\ \A e \in EndOfFileBounds(file_size) : ~e.panic /\ e.end + 1 = file_size
       /\ (file_size = 0 /\ headers.value = OpenRangeHeader(0))
            => (response.status = 200 /\ body = <<>>)

\* what does hold: on a file that is not empty no request overflows
C23_NoOverflowOnNonEmpty ==
  (ServeEnded /\ headers.present /\ file_size > 0)
    => /\ serve_pc = "done"
       /\ \A e \in EndOfFileBounds(file_size) : ~e.panic /\ e.end + 1 = file_size

\* what does hold: on an empty file the build in which the subtraction
\* wraps answers every request 200 with an empty body
C23_WrapAnswers200 ==
  (serve_pc = "done" /\ headers.present /\ file_size = 0)
    => (response.status = 200 /\ body = <<>>)

(***************************************************************************)
(* C24: events and the rebuilds they start.                                *)
(***************************************************************************)
\* the Create, Modify and Remove events that wait on the channel
QueuedTriggers ==
  Len(SelectSeq(loop_channel, TriggersRebuild))

C24_RebuildsUnlessPanic ==
  \A n \in 1..MaxLoopEvents :
    (loop_mode = "run_with_generate" /\ loop_sent = n)
      ~> (loop_started >= n \/ loop_pc = "panicked")

\* what does hold: no event is dropped or coalesced: every event sent has
\* started one rebuild or still waits on the channel; Watcher::run starts
\* none
C24_OneRebuildPerEvent ==
  IF loop_mode = "run_with_generate"
  THEN loop_sent = loop_started + QueuedTriggers
  ELSE loop_started = 0

\* what does hold: the loop receives in delivery order, and starts a rebuild
\* exactly when it has received a Create, Modify or Remove event
C24_DeliveryOrder ==
  [][Len(loop_channel') < Len(loop_channel)
       => /\ loop_item' = Head(loop_channel)
          /\ loop_channel' = Tail(loop_channel)
          /\ (loop_started' = loop_started + 1)
               <=> (loop_mode = "run_with_generate" /\ TriggersRebuild(Head(loop_channel)))]_vars

====
